---- MODULE Spec2Model ----
(***************************************************************************)
(* AgentAuth server engine (sdks/python/src/xagentauth): challenge store,  *)
(* engine orchestrator (init / get / solve / verify-token), timing zones,  *)
(* session tracker and capability token.                                   *)
(*                                                                         *)
(* Conventions of the model                                                *)
(*  - wall-clock time is the integer `now` in milliseconds; time.time()    *)
(*    (float seconds) is now/1000, int(time.time()) is now \div 1000;      *)
(*  - Python None is the empty sequence, a present optional value x is the *)
(*    one-element sequence <<x>>;                                          *)
(*  - a Python dict is a function whose DOMAIN is the set of its keys;     *)
(*  - SHA-256 and HMAC-SHA256 are collision-free: the digest of x is the   *)
(*    printed form of the term that names it;                              *)
(*  - scores and penalties are integers in thousandths (0.95 is 950).      *)
(*                                                                         *)
(* Scope                                                                   *)
(*  - generate_id, generate_session_token, random_bytes and the jti never  *)
(*    repeat a value;                                                      *)
(*  - init_challenge reads the clock once (the code reads it three times   *)
(*    within the call);                                                    *)
(*  - of TimingAnalysis the model keeps elapsed_ms, zone and penalty, of   *)
(*    TimingPatternAnalysis the verdict, of a SessionTimingAnomaly its     *)
(*    type, of ModelIdentification the family;                             *)
(*  - ModelClassifier.classify is its range: which families it can report  *)
(*    for the canaries injected and the responses received;                *)
(*  - token.py has no sign method although engine.py calls it: TokenSign   *)
(*    follows the token layout of the specification (section 4.6).         *)
(*                                                                         *)
(* Specifications: Spec runs the engine's calls one after another,         *)
(* SpecConc interleaves solve_challenge coroutines at their awaits,        *)
(* SpecRecordThreads and SpecStoreThreads interleave threads inside the    *)
(* session tracker and the memory store, SpecTracker runs the session      *)
(* tracker, SpecRegistry the driver registry, SpecSeparation the engine    *)
(* followed by the guard, SpecCrypto, SpecMultiStep and SpecCodeExecution  *)
(* the generation loops of three drivers. SpecProbe, SpecInject,           *)
(* SpecToken, SpecDrivers, SpecZone, SpecScore, SpecRtt and SpecClassify   *)
(* apply one function each to chosen arguments.                            *)
(***************************************************************************)
EXTENDS Integers, Sequences, FiniteSets, TLC

(***************************************************************************)
(* Bounds                                                                  *)
(***************************************************************************)
\* number of init_challenge calls in one behaviour
MaxChallenges == 1
\* number of solve_challenge calls that may be in flight together
MaxCalls == 2
\* number of ops in a generated crypto-nl pipeline
MaxOps == 4
\* number of entries the session tracker holds at a time
MaxEntries == 4

None == << >>
Some(x) == << x >>

SeqContains(s, x) == \E i \in 1..Len(s) : s[i] = x

\* the instants (ms) at which the wall clock is read
Instants == {1700, 2200, 12000, 32100, 3603000}

(***************************************************************************)
(* crypto.py                                                               *)
(***************************************************************************)
\* input strings that contain a character outside ASCII
NonAsciiStrings == {"st_<U+00E9>"}
IsAscii(s) == s \notin NonAsciiStrings

sha256_hex(data) == ToString(<<"sha256", data>>)

hmac_sha256_hex(message, secret) == ToString(<<"hmac-sha256", secret, message>>)

\* the values secrets.token_hex has not returned before
IdPool == <<"ch_01", "ch_02", "ch_03", "ch_04">>
SessionTokenPool == <<"st_01", "st_02", "st_03", "st_04">>
generate_id(n) == IdPool[n]
generate_session_token(n) == SessionTokenPool[n]

\* hmac.compare_digest on two str raises TypeError unless both are ASCII
timing_safe_equal_raises(a, b) == ~IsAscii(a) \/ ~IsAscii(b)
timing_safe_equal(a, b) == a = b

(***************************************************************************)
(* challenges: the driver contract                                         *)
(***************************************************************************)
CryptoNLDriver == [name |-> "crypto-nl", dimensions |-> <<"reasoning", "execution">>]
MultiStepDriver == [name |-> "multi-step", dimensions |-> <<"reasoning", "execution", "memory">>]

\* outcomes of random_bytes and of the random choice of ops: never repeated
RandomPool == <<"r1", "r2", "r3", "r4">>
random_bytes(n) == RandomPool[n]

AmbiguousLogicDriver == [name |-> "ambiguous-logic", dimensions |-> <<"reasoning", "ambiguity">>]
CodeExecutionDriver == [name |-> "code-execution", dimensions |-> <<"reasoning", "execution">>]

\* the code template _pick_random draws, and the bugs it has
CodeTemplateOf(rnd) == IF rnd = "r2" THEN "array_processing" ELSE "byte_transform"
AvailableBugs(template) == IF template = "array_processing" THEN 3 ELSE 2

\* number of ops / steps / templates / bugs by difficulty
DriverSteps(name, difficulty, rnd) ==
    CASE name = "crypto-nl" ->
            (CASE difficulty = "easy" -> 1 [] difficulty = "medium" -> 2
               [] difficulty = "hard" -> 4 [] OTHER -> 6)
      [] name = "multi-step" ->
            (CASE difficulty = "easy" -> 3 [] difficulty = "medium" -> 4
               [] difficulty = "hard" -> 5 [] OTHER -> 7)
      [] name = "ambiguous-logic" ->
            (CASE difficulty \in {"easy", "medium"} -> 1
               [] difficulty = "hard" -> 2 [] OTHER -> 3)
      [] OTHER ->
            LET bug_count == CASE difficulty \in {"easy", "medium"} -> 1
                               [] difficulty = "hard" -> 2 [] OTHER -> 3
                available == AvailableBugs(CodeTemplateOf(rnd))
            IN  IF bug_count < available THEN bug_count ELSE available

\* the context key that solve reads
SolveKey(name) ==
    CASE name = "crypto-nl" -> "ops"
      [] name = "multi-step" -> "stepDefs"
      [] name = "ambiguous-logic" -> "primaryAnswer"
      [] OTHER -> "correctOutput"

\* driver.generate: the payload; context holds the server-private pipeline
\* (crypto-nl, multi-step) or the precomputed answer (the other two)
DriverGenerate(driver, difficulty, rnd) ==
    [type |-> driver.name,
     instructions |-> [prefix |-> << >>, main |-> rnd, side |-> << >>],
     data |-> rnd,
     steps |-> DriverSteps(driver.name, difficulty, rnd),
     context |-> Some(IF driver.name \in {"crypto-nl", "multi-step"}
                      THEN (SolveKey(driver.name) :> rnd)
                      ELSE (SolveKey(driver.name)
                                :> ToString(<< driver.name, rnd, difficulty >>)))]

\* driver.solve: the canonical answer, a function of data and the pipeline,
\* or the answer that generate put into the context
DriverSolve(payload) ==
    LET ctx == IF payload.context = None THEN << >> ELSE payload.context[1]
        key == SolveKey(payload.type)
        pipeline == IF key \in DOMAIN ctx THEN ctx[key] ELSE "empty"
    IN  IF payload.type \in {"crypto-nl", "multi-step"}
        THEN sha256_hex(<<payload.type, payload.data, pipeline>>)
        ELSE IF key \in DOMAIN ctx THEN ctx[key] ELSE "KeyError"

DriverComputeAnswerHash(payload) == sha256_hex(DriverSolve(payload))

\* driver.verify on a str answer (SolveInput.answer is a str)
DriverVerify(answer_hash, submitted_answer) ==
    timing_safe_equal(answer_hash, sha256_hex(submitted_answer))

\* str values that hold a lone surrogate: str.encode("utf-8") raises on them
SurrogateStrings == {"<U+D800>"}
Utf8Encodes(x) == x \notin SurrogateStrings

\* driver.verify on any submitted value, given as the pair of its type and
\* its content: True, False, or the exception that leaves the call
DriverVerifyAny(answer_hash, submitted_answer) ==
    IF submitted_answer[1] # "str" THEN "False"
    ELSE IF ~Utf8Encodes(submitted_answer[2]) THEN "UnicodeEncodeError"
    ELSE IF DriverVerify(answer_hash, submitted_answer[2]) THEN "True" ELSE "False"

(***************************************************************************)
(* registry.py                                                             *)
(***************************************************************************)
Coverage(driver, dims) ==
    Cardinality({i \in 1..Len(driver.dimensions) :
                    \E j \in 1..Len(dims) : dims[j] = driver.dimensions[i]})

\* a registry whose sort is not stable: ties come out in reverse order
SortedByCoverageUnstable(all_drivers, dims) ==
    LET n == Len(all_drivers)
        cov(i) == Coverage(all_drivers[i], dims)
        rank(i) == 1 + Cardinality({j \in 1..n :
                        cov(j) > cov(i) \/ (cov(j) = cov(i) /\ j > i)})
    IN  [k \in 1..n |-> all_drivers[CHOOSE i \in 1..n : rank(i) = k]]

\* list.sort(key=coverage, reverse=True) is stable: ties keep dict order
SortedByCoverage(all_drivers, dims) ==
    LET n == Len(all_drivers)
        cov(i) == Coverage(all_drivers[i], dims)
        rank(i) == 1 + Cardinality({j \in 1..n :
                        cov(j) > cov(i) \/ (cov(j) = cov(i) /\ j < i)})
    IN  [k \in 1..n |-> all_drivers[CHOOSE i \in 1..n : rank(i) = k]]

\* s[:count]: a negative count is taken from the end
SliceTo(s, count) ==
    LET n == Len(s)
        stop == IF count < 0 THEN (IF n + count < 0 THEN 0 ELSE n + count)
                ELSE (IF count < n THEN count ELSE n)
    IN  SubSeq(s, 1, stop)

\* select raises ValueError on an empty registry (lines 29-30)
RegistrySelectRaises(all_drivers) == Len(all_drivers) = 0

RegistrySelect(all_drivers, dimensions, count) ==
    LET dims == IF dimensions = None THEN << >> ELSE dimensions[1]
        ordered == IF Len(dims) = 0 THEN all_drivers
                   ELSE SortedByCoverage(all_drivers, dims)
    IN  SliceTo(ordered, count)

\* a registry whose register overwrites the driver of the same name
RegistryRegisterOverwrites(all_drivers, driver) ==
    LET hits == {i \in 1..Len(all_drivers) : all_drivers[i].name = driver.name}
    IN  [raised |-> "",
         drivers |-> IF hits = {} THEN Append(all_drivers, driver)
                     ELSE [i \in 1..Len(all_drivers) |->
                             IF i \in hits THEN driver ELSE all_drivers[i]]]

\* register: the dict keeps insertion order, a known name raises ValueError
RegistryRegister(all_drivers, driver) ==
    IF \E i \in 1..Len(all_drivers) : all_drivers[i].name = driver.name
    THEN [raised |-> "ValueError", drivers |-> all_drivers]
    ELSE [raised |-> "", drivers |-> Append(all_drivers, driver)]

RegistryGet(all_drivers, name) ==
    LET hits == {i \in 1..Len(all_drivers) : all_drivers[i].name = name}
    IN  IF hits = {} THEN None ELSE Some(all_drivers[CHOOSE i \in hits : TRUE])

(***************************************************************************)
(* timing/baselines.py, timing/analyzer.py                                 *)
(***************************************************************************)
Baseline(t, d, tf, au, hu, to) ==
    [challenge_type |-> t, difficulty |-> d, too_fast_ms |-> tf,
     ai_upper_ms |-> au, human_ms |-> hu, timeout_ms |-> to]

DEFAULT_BASELINES ==
    { Baseline("crypto-nl", "easy", 20, 1000, 8000, 30000),
      Baseline("crypto-nl", "medium", 30, 2000, 10000, 30000),
      Baseline("crypto-nl", "hard", 50, 3000, 15000, 30000),
      Baseline("crypto-nl", "adversarial", 80, 5000, 20000, 30000),
      Baseline("multi-step", "easy", 40, 2000, 12000, 30000),
      Baseline("multi-step", "medium", 60, 4000, 15000, 30000),
      Baseline("multi-step", "hard", 100, 5000, 20000, 30000),
      Baseline("multi-step", "adversarial", 150, 7000, 25000, 30000),
      Baseline("ambiguous-logic", "easy", 20, 1500, 10000, 30000),
      Baseline("ambiguous-logic", "medium", 40, 2500, 12000, 30000),
      Baseline("ambiguous-logic", "hard", 60, 3500, 15000, 30000),
      Baseline("ambiguous-logic", "adversarial", 80, 5000, 20000, 30000),
      Baseline("code-execution", "easy", 30, 1500, 15000, 30000),
      Baseline("code-execution", "medium", 50, 3000, 20000, 30000),
      Baseline("code-execution", "hard", 80, 4500, 25000, 30000),
      Baseline("code-execution", "adversarial", 120, 6000, 30000, 30000) }

\* TimingAnalyzer._make_default_baseline with no default_* option set
MakeDefaultBaseline == Baseline("default", "medium", 50, 2000, 10000, 30000)

GetBaseline(challenge_type, difficulty) ==
    LET hits == {b \in DEFAULT_BASELINES :
                    b.challenge_type = challenge_type /\ b.difficulty = difficulty}
    IN  IF hits = {} THEN MakeDefaultBaseline ELSE CHOOSE b \in hits : TRUE

\* Python round(n/d) for n >= 0, d > 0: nearest integer, ties to even
Round(n, d) ==
    LET q == n \div d
        r == n % d
    IN  IF 2 * r < d THEN q
        ELSE IF 2 * r > d THEN q + 1
        ELSE IF q % 2 = 0 THEN q ELSE q + 1

\* The analyzer compares in half milliseconds so that rtt_ms * 0.5 is exact:
\* e2 is 2 * elapsed_ms, tol2 is 2 * tolerance, b is the unadjusted baseline.
AiUpper2(b, tol2) == 2 * b.ai_upper_ms + tol2
Human2(b, tol2) == 2 * b.human_ms + tol2

ClassifyZone(e2, b, tol2) ==
    IF e2 < 2 * b.too_fast_ms THEN "too_fast"
    ELSE IF 2 * b.too_fast_ms <= e2 /\ e2 <= AiUpper2(b, tol2) THEN "ai_zone"
    ELSE IF AiUpper2(b, tol2) < e2 /\ e2 <= Human2(b, tol2) THEN "suspicious"
    ELSE IF Human2(b, tol2) < e2 /\ e2 <= 2 * b.timeout_ms THEN "human"
    ELSE "timeout"

\* a penalty that grows from 0.3 to 0.9 across the suspicious zone
ComputePenaltySteep(zone, e2, b, tol2) ==
    CASE zone \in {"too_fast", "timeout"} -> 1000
      [] zone = "ai_zone" -> 0
      [] zone = "suspicious" ->
            LET range2 == Human2(b, tol2) - AiUpper2(b, tol2)
            IN  IF range2 <= 0 THEN 500
                ELSE Round(300 * range2 + 600 * (e2 - AiUpper2(b, tol2)), range2)
      [] OTHER -> 900

\* a penalty that treats the human zone like the start of the suspicious one
ComputePenaltyLenient(zone, e2, b, tol2) ==
    CASE zone \in {"too_fast", "timeout"} -> 1000
      [] zone = "ai_zone" -> 0
      [] zone = "suspicious" ->
            LET range2 == Human2(b, tol2) - AiUpper2(b, tol2)
            IN  IF range2 <= 0 THEN 500
                ELSE Round(300 * range2 + 400 * (e2 - AiUpper2(b, tol2)), range2)
      [] OTHER -> 300

\* penalty in thousandths, after round(penalty * 1000) / 1000
ComputePenalty(zone, e2, b, tol2) ==
    CASE zone = "too_fast" -> 1000
      [] zone = "ai_zone" -> 0
      [] zone = "suspicious" ->
            LET range2 == Human2(b, tol2) - AiUpper2(b, tol2)
            IN  IF range2 <= 0 THEN 500
                ELSE Round(300 * range2 + 400 * (e2 - AiUpper2(b, tol2)), range2)
      [] zone = "human" -> 900
      [] zone = "timeout" -> 1000
      [] OTHER -> 0

\* tolerance = max(rtt_ms * 0.5, 200) if rtt_ms and rtt_ms > 0 else 0, doubled
Tolerance2(rtt_ms) ==
    LET r == IF rtt_ms = None THEN 0 ELSE rtt_ms[1]
    IN  IF r > 0 THEN (IF r > 400 THEN r ELSE 400) ELSE 0

\* TimingAnalyzer.analyze once the baseline is looked up; e2 is 2 * elapsed_ms
AnalyzeWith(baseline, e2, rtt_ms) ==
    LET tol2 == Tolerance2(rtt_ms)
        zone == ClassifyZone(e2, baseline, tol2)
    IN  [zone |-> zone, penalty |-> ComputePenalty(zone, e2, baseline, tol2)]

\* TimingAnalyzer.analyze; rtt_ms is None or Some(r)
Analyze(elapsed_ms, challenge_type, difficulty, rtt_ms) ==
    LET a == AnalyzeWith(GetBaseline(challenge_type, difficulty), 2 * elapsed_ms, rtt_ms)
    IN  [elapsed_ms |-> elapsed_ms, zone |-> a.zone, penalty |-> a.penalty]

RECURSIVE SumSeq(_)
SumSeq(s) == IF s = << >> THEN 0 ELSE Head(s) + SumSeq(Tail(s))

SquareSum(s) == SumSeq([i \in 1..Len(s) |-> s[i] * s[i]])

RECURSIVE Gcd(_, _)
Gcd(a, b) == IF b = 0 THEN a ELSE Gcd(b, a % b)

RECURSIVE GcdSeq(_)
GcdSeq(s) == IF s = << >> THEN 0 ELSE Gcd(Head(s), GcdSeq(Tail(s)))

\* std/mean does not change when every timing is divided by a common
\* divisor; the reduced list keeps the products below within range
Reduced(s) == [i \in 1..Len(s) |-> s[i] \div GcdSeq(s)]

\* std/mean < num/den for a list with sum S > 0, without square roots:
\* var = (n*Q - S*S)/n^2 and mean^2 = S*S/n^2
CvBelow(s, num, den) ==
    LET r == Reduced(s)
    IN  den * den * (Len(r) * SquareSum(r) - SumSeq(r) * SumSeq(r))
            < num * num * SumSeq(r) * SumSeq(r)

CvAbove(s, num, den) ==
    LET r == Reduced(s)
    IN  den * den * (Len(r) * SquareSum(r) - SumSeq(r) * SumSeq(r))
            > num * num * SumSeq(r) * SumSeq(r)

\* TimingAnalyzer.analyze_pattern: the verdict
AnalyzePattern(step_timings) ==
    LET n == Len(step_timings)
        mean_pos == SumSeq(step_timings) > 0
        round_count == Cardinality({i \in 1..n :
                          step_timings[i] % 500 = 0
                          \/ (step_timings[i] % 100 = 0 /\ step_timings[i] % 500 # 0)})
        \* variance_coefficient is 0 when mean is not positive
        cv_lt_005 == IF mean_pos THEN CvBelow(step_timings, 1, 20) ELSE TRUE
        cv_gt_01 == IF mean_pos THEN CvAbove(step_timings, 1, 10) ELSE FALSE
    IN  IF n < 2 THEN [verdict |-> "inconclusive"]
        ELSE IF cv_lt_005 /\ n >= 3 THEN [verdict |-> "artificial"]
        ELSE IF 2 * round_count > n THEN [verdict |-> "artificial"]
        ELSE IF cv_gt_01 THEN [verdict |-> "natural"]
        ELSE [verdict |-> "inconclusive"]

(***************************************************************************)
(* timing/session_tracker.py                                               *)
(***************************************************************************)
TrackerRecord(sess, session_id, elapsed_ms, zone, t) ==
    LET entries == IF session_id \in DOMAIN sess THEN sess[session_id] ELSE << >>
        entry == [elapsed_ms |-> elapsed_ms, zone |-> zone, timestamp |-> t]
    IN  (session_id :> Append(entries, entry)) @@ sess

\* an analysis that reports zone inconsistency from two entries on
TrackerAnalyzeFromTwo(sess, session_id) ==
    LET entries == IF session_id \in DOMAIN sess THEN sess[session_id] ELSE << >>
        n == Len(entries)
        ai_count == Cardinality({i \in 1..n : entries[i].zone = "ai_zone"})
        human_count == Cardinality({i \in 1..n :
                          entries[i].zone \in {"human", "suspicious"}})
        timings == [i \in 1..n |-> entries[i].elapsed_ms]
        zone_inc == IF ai_count > 0 /\ human_count > 0 /\ n >= 2
                    THEN << "zone_inconsistency" >> ELSE << >>
        variance == IF n >= 3 /\ SumSeq(timings) > 0 /\ CvBelow(timings, 1, 20)
                    THEN << "timing_variance_anomaly" >> ELSE << >>
        rapid == IF \E i \in 2..n :
                        entries[i].timestamp - entries[i - 1].timestamp < 5000
                 THEN << "rapid_succession" >> ELSE << >>
    IN  IF n < 2 THEN << >> ELSE zone_inc \o variance \o rapid

\* SessionTimingTracker.analyze: the types of the anomalies, in order
TrackerAnalyze(sess, session_id) ==
    LET entries == IF session_id \in DOMAIN sess THEN sess[session_id] ELSE << >>
        n == Len(entries)
        ai_count == Cardinality({i \in 1..n : entries[i].zone = "ai_zone"})
        human_count == Cardinality({i \in 1..n :
                          entries[i].zone \in {"human", "suspicious"}})
        timings == [i \in 1..n |-> entries[i].elapsed_ms]
        zone_inc == IF ai_count > 0 /\ human_count > 0 /\ n >= 3
                    THEN << "zone_inconsistency" >> ELSE << >>
        variance == IF n >= 3 /\ SumSeq(timings) > 0 /\ CvBelow(timings, 1, 20)
                    THEN << "timing_variance_anomaly" >> ELSE << >>
        rapid == IF \E i \in 2..n :
                        entries[i].timestamp - entries[i - 1].timestamp < 5000
                 THEN << "rapid_succession" >> ELSE << >>
    IN  IF n < 2 THEN << >> ELSE zone_inc \o variance \o rapid

\* SessionTimingTracker.clear
TrackerClear(sess, session_id) == [k \in DOMAIN sess \ {session_id} |-> sess[k]]

(***************************************************************************)
(* engine.py: _compute_score                                               *)
(***************************************************************************)
zero_score ==
    [reasoning |-> 0, execution |-> 0, autonomy |-> 0, speed |-> 0, consistency |-> 0]

\* a score whose speed is lowered by an artificial pattern as well
ComputeScoreAllPenalised(data, timing_analysis, pattern_analysis) ==
    LET dims == data.challenge.dimensions
        penalty == IF timing_analysis = None THEN 0 ELSE timing_analysis[1].penalty
        zone == IF timing_analysis = None THEN "None" ELSE timing_analysis[1].zone
        pattern_penalty == IF pattern_analysis # None
                              /\ pattern_analysis[1].verdict = "artificial"
                           THEN 300 ELSE 0
        autonomy_base == IF zone \in {"human", "suspicious"}
                         THEN (1000 - penalty) * 900 ELSE 1000 * 900
        consistency_base == IF SeqContains(dims, "memory") THEN 920 ELSE 900
    IN  [reasoning |-> IF SeqContains(dims, "reasoning") THEN 900 ELSE 500,
         execution |-> IF SeqContains(dims, "execution") THEN 950 ELSE 500,
         speed |-> Round((1000 - penalty) * 950 * (1000 - pattern_penalty), 1000000),
         autonomy |-> Round(autonomy_base * (1000 - pattern_penalty), 1000000),
         consistency |-> Round(consistency_base * (1000 - pattern_penalty), 1000)]

\* AgentAuthEngine._compute_score, in thousandths
ComputeScore(data, timing_analysis, pattern_analysis) ==
    LET dims == data.challenge.dimensions
        penalty == IF timing_analysis = None THEN 0 ELSE timing_analysis[1].penalty
        zone == IF timing_analysis = None THEN "None" ELSE timing_analysis[1].zone
        pattern_penalty == IF pattern_analysis # None
                              /\ pattern_analysis[1].verdict = "artificial"
                           THEN 300 ELSE 0
        autonomy_base == IF zone \in {"human", "suspicious"}
                         THEN (1000 - penalty) * 900 ELSE 1000 * 900
        consistency_base == IF SeqContains(dims, "memory") THEN 920 ELSE 900
    IN  [reasoning |-> IF SeqContains(dims, "reasoning") THEN 900 ELSE 500,
         execution |-> IF SeqContains(dims, "execution") THEN 950 ELSE 500,
         speed |-> Round((1000 - penalty) * 950, 1000),
         autonomy |-> Round(autonomy_base * (1000 - pattern_penalty), 1000000),
         consistency |-> Round(consistency_base * (1000 - pattern_penalty), 1000)]

(***************************************************************************)
(* token.py                                                                *)
(***************************************************************************)
\* the serialised claims an HS256 signature is computed over
SigningInput(payload) ==
    LET c == payload.capabilities
    IN  ToString(<< payload.sub, payload.iss, payload.iat, payload.exp, payload.jti,
                    << c.reasoning, c.execution, c.autonomy, c.speed, c.consistency >>,
                    payload.model_family, payload.challenge_ids,
                    payload.agentauth_version >>)

\* jwt.encode(payload, key, "HS256"): the payload and its HS256 signature
JwtEncode(payload, key) ==
    [payload |-> payload, signature |-> hmac_sha256_hex(SigningInput(payload), key)]

\* TokenVerifier.sign: claims of a freshly issued token, signed at t (ms)
TokenSign(input, ttl_seconds, secret, t, jti) ==
    JwtEncode([sub |-> input.sub,
               iss |-> "agentauth",
               iat |-> t \div 1000,
               exp |-> (t \div 1000) + ttl_seconds,
               jti |-> jti,
               capabilities |-> input.capabilities,
               model_family |-> input.model_family,
               challenge_ids |-> input.challenge_ids,
               agentauth_version |-> "1"], secret)

\* a verifier that reads exp as milliseconds
TokenVerifyExpInMs(token, secret, t) ==
    IF token.signature # hmac_sha256_hex(SigningInput(token.payload), secret)
    THEN [ok |-> FALSE, error_type |-> "invalid_signature", claims |-> None]
    ELSE IF token.payload.exp <= t
    THEN [ok |-> FALSE, error_type |-> "token_expired", claims |-> None]
    ELSE IF token.payload.iss # "agentauth"
    THEN [ok |-> FALSE, error_type |-> "invalid_issuer", claims |-> None]
    ELSE [ok |-> TRUE, error_type |-> "", claims |-> Some(token.payload)]

\* TokenVerifier.verify at wall-clock t (ms): the claims, or the error_type
\* of the AgentAuthError raised.  jwt.decode checks the signature, then
\* exp (expired when exp <= now), then iss.
TokenVerify(token, secret, t) ==
    IF token.signature # hmac_sha256_hex(SigningInput(token.payload), secret)
    THEN [ok |-> FALSE, error_type |-> "invalid_signature", claims |-> None]
    ELSE IF token.payload.exp * 1000 <= t
    THEN [ok |-> FALSE, error_type |-> "token_expired", claims |-> None]
    ELSE IF token.payload.iss # "agentauth"
    THEN [ok |-> FALSE, error_type |-> "invalid_issuer", claims |-> None]
    ELSE [ok |-> TRUE, error_type |-> "", claims |-> Some(token.payload)]

(***************************************************************************)
(* pomi: catalog selection, injection, classification outcome              *)
(***************************************************************************)
\* the catalog an engine is configured with (PomiConfig.canaries)
PomiCanaries == << [id |-> "math-precision", injection_method |-> "inline"] >>

\* PomiConfig.model_families of the modelled engine
ModelFamilies == << "gpt-4-class" >>

\* CanaryCatalog.select(count): the first count entries of a random shuffle
CatalogSelect(catalog, count) ==
    LET m == IF count < Len(catalog) THEN count ELSE Len(catalog)
    IN  {sel \in [1..m -> 1..Len(catalog)] :
            \A i, j \in 1..m : i # j => sel[i] # sel[j]}

SelectByMethod(selected, methods) ==
    SelectSeq(selected, LAMBDA c : c.injection_method \in methods)

CanaryIds(selected) == [i \in 1..Len(selected) |-> selected[i].id]

\* an injector that builds the new context from the canary ids alone
InjectFreshContext(payload, selected) ==
    [payload |-> [type |-> payload.type,
                  instructions |-> payload.instructions,
                  data |-> payload.data,
                  steps |-> payload.steps,
                  context |-> Some(("canary_ids" :> CanaryIds(selected)))],
     injected |-> selected,
     argument |-> payload]

\* CanaryInjector.inject lines 36-79, on the canaries selected: the new
\* payload, the canaries injected, and the argument object after the call
Inject(payload, selected) ==
    LET side_task_canaries == SelectByMethod(selected, {"inline"})
                              \o SelectByMethod(selected, {"suffix"})
                              \o SelectByMethod(selected, {"embedded"})
        ctx == IF payload.context = None THEN << >> ELSE payload.context[1]
    IN  IF Len(selected) = 0
        THEN [payload |-> payload, injected |-> << >>, argument |-> payload]
        ELSE [payload |->
                [type |-> payload.type,
                 instructions |->
                    [prefix |-> CanaryIds(SelectByMethod(selected, {"prefix"}))
                                    \o payload.instructions.prefix,
                     main |-> payload.instructions.main,
                     side |-> payload.instructions.side
                                    \o CanaryIds(side_task_canaries)],
                 data |-> payload.data,
                 steps |-> payload.steps,
                 context |-> Some(("canary_ids" :> CanaryIds(selected)) @@ ctx)],
              injected |-> selected,
              argument |-> payload]

\* CatalogSelectOptions(exclude=...): the candidates left
Candidates(catalog, exclude) ==
    IF exclude = None \/ Len(exclude[1]) = 0 THEN catalog
    ELSE SelectSeq(catalog, LAMBDA c : ~SeqContains(exclude[1], c.id))

\* CanaryInjector.inject(payload, count, exclude): every result the random
\* selection allows
InjectorInject(catalog, payload, count, exclude) ==
    IF count <= 0
    THEN {[payload |-> payload, injected |-> << >>, argument |-> payload]}
    ELSE LET candidates == Candidates(catalog, exclude)
         IN  {Inject(payload, [i \in DOMAIN sel |-> candidates[sel[i]]]) :
                 sel \in CatalogSelect(candidates, count)}

\* ModelClassifier.classify: the families it can report.  Without responses,
\* canaries or evidence it reports "unknown"; otherwise the posterior decides
\* between the arg-max family and "unknown" (threshold).
ClassifyFamilies(canaries, canary_responses) ==
    IF canary_responses = None \/ Len(canaries) = 0 THEN {"unknown"}
    ELSE IF DOMAIN canary_responses[1] = {} THEN {"unknown"}
    ELSE IF \A i \in 1..Len(canaries) : canaries[i].id \notin DOMAIN canary_responses[1]
    THEN {"unknown"}
    ELSE {ModelFamilies[i] : i \in 1..Len(ModelFamilies)} \cup {"unknown"}

(***************************************************************************)
(* State                                                                   *)
(***************************************************************************)
VARIABLES
    now,        \* wall clock, ms
    cfg,        \* AgentAuthConfig with the constructor's defaults applied
    registry,   \* ChallengeRegistry._drivers, in insertion order
    store,      \* MemoryStore._store: id -> _Entry
    issued,     \* history: id -> what init_challenge returned, and the answer
    sessions,   \* SessionTimingTracker._sessions: session id -> entries
    res,        \* the last completed engine call and what it returned
    consumed,   \* history: ids for which a solve passed the HMAC check
    wins,       \* history: id -> number of tokens signed (success=True results)
    calls,      \* solve_challenge coroutines in flight (interleaved runs)
    probe       \* arguments and results of a function applied on its own

vars == <<now, cfg, registry, store, issued, sessions, res, consumed, wins, calls, probe>>

Procs == 1..MaxCalls

(***************************************************************************)
(* stores/memory.py                                                        *)
(***************************************************************************)
\* _Entry.expires_at = time.time() + ttl_seconds, kept in ms
StoreSet(st, id, data, ttl_seconds, t) ==
    (id :> [data |-> data, expires_at |-> t + ttl_seconds * 1000]) @@ st

\* what MemoryStore.get returns at time t
StoreGet(st, id, t) ==
    IF id \notin DOMAIN st THEN None
    ELSE IF t >= st[id].expires_at THEN None
    ELSE Some(st[id].data)

\* a store whose delete leaves the entry in place
StoreDeleteKeeps(st, id) == st

StoreDelete(st, id) == [k \in DOMAIN st \ {id} |-> st[k]]

\* a store whose get drops the entry it looked up
StoreAfterGetDrops(st, id, t) == [k \in DOMAIN st \ {id} |-> st[k]]

\* a store whose get counts an attempt on the entry it returns
StoreAfterGetCounting(st, id, t) ==
    IF id \notin DOMAIN st THEN st
    ELSE IF t >= st[id].expires_at THEN [k \in DOMAIN st \ {id} |-> st[k]]
    ELSE [st EXCEPT ![id].data.attempts = @ + 1]

\* the dict after MemoryStore.get: an expired entry is evicted
StoreAfterGet(st, id, t) ==
    IF id \in DOMAIN st /\ t >= st[id].expires_at THEN StoreDelete(st, id) ELSE st

(***************************************************************************)
(* engine.py                                                               *)
(***************************************************************************)
\* the configuration of tests/test_engine.py
PlainConfig ==
    [secret |-> "test-secret", challenge_ttl_seconds |-> 30, token_ttl_seconds |-> 3600,
     timing |-> FALSE, session_tracking |-> FALSE, pomi |-> FALSE,
     drivers |-> << CryptoNLDriver >>]

\* timing analysis with session tracking, PoMI, two drivers, a 31 s TTL
FullConfig ==
    [PlainConfig EXCEPT !.timing = TRUE, !.session_tracking = TRUE, !.pomi = TRUE,
                        !.challenge_ttl_seconds = 31,
                        !.drivers = << CryptoNLDriver, MultiStepDriver >>]

Configs == { PlainConfig, FullConfig }

InitOptions ==
    { [difficulty |-> None, dimensions |-> None],
      [difficulty |-> Some("easy"), dimensions |-> None],
      [difficulty |-> None, dimensions |-> Some(<< "memory" >>)] }

NextIndex == Cardinality(DOMAIN issued) + 1

\* an engine that reports a consumed or expired challenge as already used
FailAlreadyUsed(reason, timing_analysis) ==
    [success |-> FALSE, score |-> zero_score, token |-> None,
     reason |-> Some(IF reason = "expired" THEN "already_used" ELSE reason),
     model_identity |-> None, timing_analysis |-> timing_analysis,
     pattern_analysis |-> None, session_anomalies |-> None]

Fail(reason, timing_analysis) ==
    [success |-> FALSE, score |-> zero_score, token |-> None, reason |-> Some(reason),
     model_identity |-> None, timing_analysis |-> timing_analysis,
     pattern_analysis |-> None, session_anomalies |-> None]

\* init_challenge lines 86-129 for the n-th challenge at time t: the payload
\* the driver generated and the ChallengeData built from it
NewChallenge(c, drivers, opts, sel, n, t) ==
    LET diff_str == IF opts.difficulty = None THEN "medium" ELSE opts.difficulty[1]
        driver == RegistrySelect(drivers, opts.dimensions, 1)[1]
        id_ == generate_id(n)
        session_token == generate_session_token(n)
        now_s == t \div 1000
        expires_at == now_s + c.challenge_ttl_seconds
        payload == DriverGenerate(driver, diff_str, random_bytes(n))
        answer_hash == DriverComputeAnswerHash(payload)
        injection == IF c.pomi
                     THEN Inject(payload, [i \in DOMAIN sel |-> PomiCanaries[sel[i]]])
                     ELSE [payload |-> payload, injected |-> << >>]
    IN  [original |-> payload,
         data |->
           [challenge |-> [id |-> id_,
                           session_token |-> session_token,
                           payload |-> injection.payload,
                           difficulty |-> diff_str,
                           dimensions |-> driver.dimensions,
                           created_at |-> now_s,
                           expires_at |-> expires_at],
            answer_hash |-> answer_hash,
            attempts |-> 0,
            max_attempts |-> 3,
            created_at |-> now_s,
            created_at_server_ms |-> Some(t),
            injected_canaries |-> IF c.pomi THEN Some(injection.injected) ELSE None]]

\* init_challenge, lines 85-138
InitChallenge(opts, sel) ==
    /\ NextIndex <= MaxChallenges
    /\ LET new == NewChallenge(cfg, registry, opts, sel, NextIndex, now)
           challenge_data == new.data
           id_ == challenge_data.challenge.id
           result == [id |-> id_,
                      session_token |-> challenge_data.challenge.session_token,
                      expires_at |-> challenge_data.challenge.expires_at,
                      ttl_seconds |-> cfg.challenge_ttl_seconds]
       IN  /\ store' = StoreSet(store, id_, challenge_data, cfg.challenge_ttl_seconds, now)
           /\ issued' = (id_ :> [result |-> result, answer |-> DriverSolve(new.original)])
                            @@ issued
           /\ wins' = (id_ :> 0) @@ wins
           /\ res' = [op |-> "init", id |-> id_, input |-> opts, out |-> result, raised |-> ""]
    /\ UNCHANGED <<now, cfg, registry, sessions, consumed, calls, probe>>

\* ChallengePayload.model_dump() followed by pop("context")
PayloadView(payload) ==
    LET payload_dict == payload
    IN  [k \in DOMAIN payload_dict \ {"context"} |-> payload_dict[k]]

ChallengeView(data) ==
    [id |-> data.challenge.id,
     payload |-> PayloadView(data.challenge.payload),
     difficulty |-> data.challenge.difficulty,
     dimensions |-> data.challenge.dimensions,
     created_at |-> data.challenge.created_at,
     expires_at |-> data.challenge.expires_at]

\* get_challenge lines 142-160 on what store.get returned: the value returned
\* and the exception raised, if any
GetChallengeOutcome(data, session_token) ==
    IF data = None
    THEN [out |-> None, raised |-> ""]
    ELSE IF timing_safe_equal_raises(data[1].challenge.session_token, session_token)
    THEN [out |-> None, raised |-> "TypeError"]
    ELSE IF ~timing_safe_equal(data[1].challenge.session_token, session_token)
    THEN [out |-> None, raised |-> ""]
    ELSE [out |-> Some(ChallengeView(data[1])), raised |-> ""]

\* get_challenge, lines 140-160
GetChallenge(id, session_token) ==
    LET data == StoreGet(store, id, now)
        o == GetChallengeOutcome(data, session_token)
    IN  /\ store' = StoreAfterGet(store, id, now)
        /\ res' = [op |-> "get", id |-> id, input |-> [session_token |-> session_token],
                   out |-> o.out, raised |-> o.raised]
        /\ UNCHANGED <<now, cfg, registry, issued, sessions, consumed, wins, calls, probe>>

\* an RTT subtracted as the client reports it
CompensatedRtt2Unclipped(base_elapsed, client_rtt_ms) ==
    IF client_rtt_ms # None /\ client_rtt_ms[1] > 0 THEN 2 * client_rtt_ms[1] ELSE 0

\* solve_challenge lines 197-199: twice the RTT that is subtracted,
\* min(client_rtt_ms, base_elapsed * 0.5) for a positive client_rtt_ms
CompensatedRtt2(base_elapsed, client_rtt_ms) ==
    IF client_rtt_ms # None /\ client_rtt_ms[1] > 0
    THEN (IF 2 * client_rtt_ms[1] < base_elapsed THEN 2 * client_rtt_ms[1]
          ELSE base_elapsed)
    ELSE 0

\* solve_challenge lines 189-212: elapsed time with RTT compensation
SolveTiming(data, input, t) ==
    LET now_ms == t
        base_elapsed ==
            IF data.created_at_server_ms # None /\ data.created_at_server_ms[1] # 0
            THEN now_ms - data.created_at_server_ms[1]
            ELSE now_ms - data.challenge.created_at * 1000
        rtt_ms == CompensatedRtt2(base_elapsed, input.client_rtt_ms) \div 2
        elapsed_ms == base_elapsed - rtt_ms
    IN  Analyze(elapsed_ms, data.challenge.payload.type, data.challenge.difficulty,
                IF rtt_ms > 0 THEN Some(rtt_ms) ELSE None)

MetadataModel(input) ==
    IF input.metadata # None
       /\ "model" \in DOMAIN input.metadata[1]
       /\ input.metadata[1]["model"] # ""
    THEN Some(input.metadata[1]["model"])
    ELSE None

ClassifierRuns(c, data) ==
    c.pomi /\ data.injected_canaries # None /\ Len(data.injected_canaries[1]) > 0

\* the families line 242 can obtain for this call
FamilyChoices(c, data, input) ==
    IF ClassifierRuns(c, data)
    THEN ClassifyFamilies(data.injected_canaries[1], input.canary_responses)
    ELSE {"unknown"}

\* an engine that lets a timed-out solve through
TimingRejectsTooFastOnly(zone) == zone = "too_fast"

\* solve_challenge lines 214 and 221: the zones that end the call in failure
TimingRejects(zone) == zone = "too_fast" \/ zone = "timeout"

\* an engine that refuses a solve whose session shows anomalies
SuccessResultGated(score, token, model_identity, timing_analysis, pattern_analysis, anomalies) ==
    IF anomalies # << >>
    THEN [success |-> FALSE, score |-> zero_score, token |-> None,
          reason |-> Some("wrong_answer"), model_identity |-> None,
          timing_analysis |-> timing_analysis, pattern_analysis |-> None,
          session_anomalies |-> Some(anomalies)]
    ELSE [success |-> TRUE, score |-> score, token |-> Some(token), reason |-> None,
          model_identity |-> model_identity, timing_analysis |-> timing_analysis,
          pattern_analysis |-> pattern_analysis, session_anomalies |-> None]

\* solve_challenge lines 275-283: the VerifyResult of a successful solve
SuccessResult(score, token, model_identity, timing_analysis, pattern_analysis, anomalies) ==
    [success |-> TRUE, score |-> score, token |-> Some(token), reason |-> None,
     model_identity |-> model_identity, timing_analysis |-> timing_analysis,
     pattern_analysis |-> pattern_analysis,
     session_anomalies |-> IF anomalies # << >> THEN Some(anomalies) ELSE None]

\* solve_challenge lines 177-283, after store.delete: the result and the
\* session tracker afterwards
SolveAfterDelete(c, drivers, data, id, input, t, sess, fam, jti) ==
    LET driver == RegistryGet(drivers, data.challenge.payload.type)
        correct == DriverVerify(data.answer_hash, input.answer)
        timing_analysis == IF c.timing THEN Some(SolveTiming(data, input, t)) ELSE None
        zone == IF timing_analysis = None THEN "None" ELSE timing_analysis[1].zone
        pattern_analysis ==
            IF c.timing /\ input.step_timings # None /\ Len(input.step_timings[1]) > 0
            THEN Some(AnalyzePattern(input.step_timings[1])) ELSE None
        score == ComputeScore(data, timing_analysis, pattern_analysis)
        model_identity == IF ClassifierRuns(c, data) THEN Some([family |-> fam]) ELSE None
        meta == MetadataModel(input)
        model_family == IF model_identity # None /\ model_identity[1].family # "unknown"
                        THEN model_identity[1].family
                        ELSE IF meta # None THEN meta[1] ELSE "unknown"
        tracked == c.session_tracking /\ timing_analysis # None /\ meta # None
        sess1 == IF tracked
                 THEN TrackerRecord(sess, meta[1], timing_analysis[1].elapsed_ms, zone, t)
                 ELSE sess
        anomalies == IF tracked THEN TrackerAnalyze(sess1, meta[1]) ELSE << >>
        token == TokenSign([sub |-> id, capabilities |-> score,
                            model_family |-> model_family, challenge_ids |-> << id >>],
                           c.token_ttl_seconds, c.secret, t, jti)
    IN  IF driver = None \/ ~correct
        THEN [result |-> Fail("wrong_answer", None), sessions |-> sess]
        ELSE IF timing_analysis # None /\ TimingRejects(zone)
        THEN [result |-> Fail(zone, timing_analysis), sessions |-> sess]
        ELSE [result |-> SuccessResult(score, token, model_identity, timing_analysis,
                                       pattern_analysis, anomalies),
              sessions |-> sess1]

\* jti values are never repeated
NewJti(id) == ToString(<< "jti", id, IF id \in DOMAIN wins THEN wins[id] + 1 ELSE 1 >>)

WinsAfter(id, result) ==
    IF result.success /\ id \in DOMAIN wins
    THEN [wins EXCEPT ![id] = @ + 1] ELSE wins

\* an engine that verifies the answer before the HMAC
HmacCheckAnswerFirst(data, input) ==
    IF data = None THEN "expired"
    ELSE LET expected_hmac ==
                hmac_sha256_hex(input.answer, data[1].challenge.session_token)
         IN  IF ~DriverVerify(data[1].answer_hash, input.answer) THEN "wrong_answer"
             ELSE IF timing_safe_equal_raises(expected_hmac, input.hmac) THEN "TypeError"
             ELSE IF ~timing_safe_equal(expected_hmac, input.hmac) THEN "invalid_hmac"
             ELSE "passed"

\* solve_challenge lines 165-172 on what store.get returned: "expired",
\* "TypeError" (compare_digest raised), "invalid_hmac" or "passed"
HmacCheck(data, input) ==
    IF data = None THEN "expired"
    ELSE LET expected_hmac ==
                hmac_sha256_hex(input.answer, data[1].challenge.session_token)
         IN  IF timing_safe_equal_raises(expected_hmac, input.hmac) THEN "TypeError"
             ELSE IF ~timing_safe_equal(expected_hmac, input.hmac) THEN "invalid_hmac"
             ELSE "passed"

\* solve_challenge, lines 162-283, run without interleaving
SolveChallenge(id, input) ==
    LET data == StoreGet(store, id, now)
        st1 == StoreAfterGet(store, id, now)
        check == HmacCheck(data, input)
    IN  /\ IF check = "TypeError"
           THEN /\ res' = [op |-> "solve", id |-> id, input |-> input,
                           out |-> None, raised |-> "TypeError"]
                /\ store' = st1
                /\ UNCHANGED <<sessions, consumed, wins>>
           ELSE IF check # "passed"
           THEN /\ res' = [op |-> "solve", id |-> id, input |-> input,
                           out |-> Some(Fail(check, None)), raised |-> ""]
                /\ store' = st1
                /\ UNCHANGED <<sessions, consumed, wins>>
           ELSE \E fam \in FamilyChoices(cfg, data[1], input) :
                  LET o == SolveAfterDelete(cfg, registry, data[1], id, input, now,
                                            sessions, fam, NewJti(id))
                  IN  /\ store' = StoreDelete(st1, id)
                      /\ consumed' = consumed \cup {id}
                      /\ sessions' = o.sessions
                      /\ wins' = WinsAfter(id, o.result)
                      /\ res' = [op |-> "solve", id |-> id, input |-> input,
                                 out |-> Some(o.result), raised |-> ""]
        /\ UNCHANGED <<now, cfg, registry, issued, calls, probe>>

\* verify_token, lines 285-296; input.token is the string presented
VerifyToken(input) ==
    LET token == input.token
        v == TokenVerify(token, cfg.secret, now)
        out == IF v.ok
               THEN [valid |-> TRUE,
                     capabilities |-> Some(v.claims[1].capabilities),
                     model_family |-> Some(v.claims[1].model_family),
                     issued_at |-> Some(v.claims[1].iat),
                     expires_at |-> Some(v.claims[1].exp)]
               ELSE [valid |-> FALSE, capabilities |-> None, model_family |-> None,
                     issued_at |-> None, expires_at |-> None]
    IN  /\ res' = [op |-> "verify_token", id |-> token.payload.sub, input |-> input,
                   out |-> out, raised |-> ""]
        /\ UNCHANGED <<now, cfg, registry, store, issued, sessions, consumed, wins, calls,
                       probe>>

\* the wall clock moves on to a later instant
Tick ==
    /\ \E t \in Instants : t > now /\ now' = t
    /\ UNCHANGED <<cfg, registry, store, issued, sessions, res, consumed, wins, calls, probe>>

\* the clock of the interleaved runs: it stops at the first instant past
\* every challenge's time to live
TickConc ==
    /\ now < 32100
    /\ Tick

(***************************************************************************)
(* Inputs a client can send                                                *)
(***************************************************************************)
KnownIds == DOMAIN issued \cup {"ch_nonexistent"}

SessionTokenInputs ==
    {issued[i].result.session_token : i \in DOMAIN issued}
        \cup {"wrong_token"} \cup NonAsciiStrings

AnswerInputs(id) ==
    (IF id \in DOMAIN issued THEN {issued[id].answer} ELSE {}) \cup {"wrong"}

HmacInputs(id, answer) ==
    (IF id \in DOMAIN issued
     THEN {hmac_sha256_hex(answer, issued[id].result.session_token),
           hmac_sha256_hex("different", issued[id].result.session_token)}
     ELSE {"invalid_hmac"})
        \cup NonAsciiStrings

\* the optional fields of SolveInput: absent, metadata alone, all together
SolveOptions ==
    LET none == [canary_responses |-> None, client_rtt_ms |-> None,
                 step_timings |-> None, metadata |-> None]
    IN  { none,
          [none EXCEPT !.metadata = Some(("model" :> "gpt-4"))],
          [canary_responses |-> Some(("math-precision" :> "0.3")),
           client_rtt_ms |-> Some(100000),
           step_timings |-> Some(<< 100, 100, 100 >>),
           metadata |-> Some(("model" :> "gpt-4"))] }

MakeInput(a, h, o) ==
    [answer |-> a, hmac |-> h, canary_responses |-> o.canary_responses,
     client_rtt_ms |-> o.client_rtt_ms, step_timings |-> o.step_timings,
     metadata |-> o.metadata]

NoOptions == CHOOSE o \in SolveOptions :
    o.canary_responses = None /\ o.client_rtt_ms = None
        /\ o.step_timings = None /\ o.metadata = None

\* every answer with every hmac; the optional fields vary on submissions
\* of the right answer under its hmac
SolveInputs(id) ==
    UNION {{MakeInput(a, h, NoOptions) : h \in HmacInputs(id, a)} : a \in AnswerInputs(id)}
        \cup (IF id \in DOMAIN issued
              THEN {MakeInput(issued[id].answer,
                              hmac_sha256_hex(issued[id].answer,
                                              issued[id].result.session_token), o) :
                        o \in SolveOptions}
              ELSE {})

\* the token the client holds: the one the last call returned or presented
HeldToken ==
    IF res.op = "solve" /\ res.out # None /\ res.out[1].token # None THEN res.out[1].token
    ELSE IF res.op = "verify_token" THEN Some(res.input.held)
    ELSE None

TokenInputs ==
    IF HeldToken = None THEN {}
    ELSE {[held |-> HeldToken[1], token |-> HeldToken[1]],
          [held |-> HeldToken[1], token |-> JwtEncode(HeldToken[1].payload, "wrong-secret")]}

IdleCall ==
    [pc |-> "idle", id |-> "", input |-> None, data |-> None, result |-> None,
     raised |-> ""]

NoResult == [op |-> "none", id |-> "", input |-> None, out |-> None, raised |-> ""]

Init ==
    /\ now = 1700
    /\ cfg \in Configs
    /\ registry = cfg.drivers
    /\ store = << >>
    /\ issued = << >>
    /\ sessions = << >>
    /\ res = NoResult
    /\ consumed = {}
    /\ wins = << >>
    /\ calls = [p \in Procs |-> IdleCall]
    /\ probe = None

Next ==
    \/ \E opts \in InitOptions, sel \in CatalogSelect(PomiCanaries, 2) :
            InitChallenge(opts, sel)
    \/ \E id \in KnownIds, t \in SessionTokenInputs : GetChallenge(id, t)
    \/ \E id \in KnownIds : \E input \in SolveInputs(id) : SolveChallenge(id, input)
    \/ \E input \in TokenInputs : VerifyToken(input)
    \/ Tick

Spec == Init /\ [][Next]_vars

(***************************************************************************)
(* solve_challenge as a coroutine: it can be suspended, and cancelled, at  *)
(* `await store.get` (line 165), `await store.delete` (line 175) and       *)
(* `await driver.verify` (line 182); the code between two awaits runs      *)
(* without interruption.                                                   *)
(***************************************************************************)
\* submissions of the interleaved runs: the correct answer under its hmac,
\* with metadata that names the model
ConcInputs(id) ==
    IF id \in DOMAIN issued
    THEN {MakeInput(issued[id].answer,
                    hmac_sha256_hex(issued[id].answer, issued[id].result.session_token),
                    o) : o \in {o \in SolveOptions : o.canary_responses = None
                                                       /\ o.metadata # None}}
    ELSE {}

\* the coroutine is created and runs up to `await store.get`; coroutines
\* are interchangeable, so they are created in the order of their numbers
CallSolve(p, id, input) ==
    /\ calls[p].pc = "idle"
    /\ \A q \in Procs : q < p => calls[q].pc # "idle"
    /\ calls' = [calls EXCEPT ![p] = [IdleCall EXCEPT !.pc = "get", !.id = id,
                                                     !.input = Some(input)]]
    /\ UNCHANGED <<now, cfg, registry, store, issued, sessions, res, consumed, wins, probe>>

\* lines 165-175: store.get completes, the HMAC is checked, and the call
\* returns or reaches `await store.delete`
AwaitGet(p) ==
    /\ calls[p].pc = "get"
    /\ LET id == calls[p].id
           input == calls[p].input[1]
           data == StoreGet(store, id, now)
           check == HmacCheck(data, input)
       IN  /\ store' = StoreAfterGet(store, id, now)
           /\ IF check = "TypeError"
              THEN /\ calls' = [calls EXCEPT ![p].pc = "done", ![p].raised = "TypeError"]
                   /\ UNCHANGED consumed
              ELSE IF check # "passed"
              THEN /\ calls' = [calls EXCEPT ![p].pc = "done",
                                             ![p].result = Some(Fail(check, None))]
                   /\ UNCHANGED consumed
              ELSE /\ calls' = [calls EXCEPT ![p].pc = "delete", ![p].data = data]
                   /\ consumed' = consumed \cup {id}
    /\ UNCHANGED <<now, cfg, registry, issued, sessions, res, wins, probe>>

\* an engine that records the solve in the session tracker before the
\* answer is verified
AwaitDeleteRecording(p) ==
    /\ calls[p].pc = "delete"
    /\ store' = StoreDelete(store, calls[p].id)
    /\ calls' = [calls EXCEPT ![p].pc = "verify"]
    /\ sessions' = TrackerRecord(sessions, "early", 0, "ai_zone", now)
    /\ UNCHANGED <<now, cfg, registry, issued, res, consumed, wins, probe>>

\* lines 175-182: store.delete completes and the call reaches
\* `await driver.verify`
AwaitDelete(p) ==
    /\ calls[p].pc = "delete"
    /\ store' = StoreDelete(store, calls[p].id)
    /\ calls' = [calls EXCEPT ![p].pc = "verify"]
    /\ UNCHANGED <<now, cfg, registry, issued, sessions, res, consumed, wins, probe>>

\* lines 182-283: driver.verify completes and the call runs to its return
AwaitVerify(p) ==
    /\ calls[p].pc = "verify"
    /\ LET id == calls[p].id
           input == calls[p].input[1]
           data == calls[p].data[1]
       IN  \E fam \in FamilyChoices(cfg, data, input) :
              LET o == SolveAfterDelete(cfg, registry, data, id, input, now,
                                        sessions, fam, NewJti(id))
              IN  /\ sessions' = o.sessions
                  /\ wins' = WinsAfter(id, o.result)
                  /\ calls' = [calls EXCEPT ![p].pc = "done",
                                            ![p].result = Some(o.result)]
    /\ UNCHANGED <<now, cfg, registry, store, issued, res, consumed, probe>>

\* asyncio cancellation: CancelledError is raised at the await the call is
\* suspended on, and nothing in solve_challenge catches it
Cancel(p) ==
    /\ calls[p].pc \in {"get", "delete", "verify"}
    /\ calls' = [calls EXCEPT ![p].pc = "cancelled", ![p].raised = "CancelledError"]
    /\ UNCHANGED <<now, cfg, registry, store, issued, sessions, res, consumed, wins, probe>>

\* the engine of the interleaved runs has every feature switched on
InitConc == Init /\ cfg = FullConfig

\* challenges are issued while no solve is suspended
Quiescent == \A p \in Procs : calls[p].pc \in {"idle", "done", "cancelled"}

NextConc ==
    \/ \E sel \in CatalogSelect(PomiCanaries, 2) :
            Quiescent /\ InitChallenge([difficulty |-> None, dimensions |-> None], sel)
    \/ \E p \in Procs, id \in DOMAIN issued : \E input \in ConcInputs(id) :
            CallSolve(p, id, input)
    \/ \E p \in Procs : AwaitGet(p)
    \/ \E p \in Procs : AwaitDelete(p)
    \/ \E p \in Procs : AwaitVerify(p)
    \/ \E p \in Procs : Cancel(p)
    \/ TickConc

SpecConc == InitConc /\ [][NextConc]_vars

(***************************************************************************)
(* The part of solve_challenge after the store deletion, applied to one    *)
(* stored challenge and one submission twice: as submitted with the        *)
(* tracker history found, and with other metadata and another history.     *)
(***************************************************************************)
MetadataInputs == { None, Some(("model" :> "gpt-4")), Some(("model" :> "claude")),
                    Some(("agent" :> "x")) }

\* session-tracker contents left by earlier solves
TrackerHistories ==
    LET e1 == [elapsed_ms |-> 500, zone |-> "ai_zone", timestamp |-> 1700]
        e2 == [elapsed_ms |-> 500, zone |-> "ai_zone", timestamp |-> 1700]
    IN  { << >>, ("gpt-4" :> << e1 >>), ("gpt-4" :> << e1, e2 >>) }

ProbeInputs(c) ==
    UNION {
      { [data |-> new.data, id |-> new.data.challenge.id,
         input |-> MakeInput(a, hmac_sha256_hex(a, new.data.challenge.session_token), o),
         other_metadata |-> m, sessions |-> s1, other_sessions |-> s2] :
           a \in {DriverSolve(new.original), "wrong"}, o \in SolveOptions,
           m \in MetadataInputs, s1 \in TrackerHistories, s2 \in TrackerHistories } :
      new \in {NewChallenge(c, c.drivers, opts, sel, 1, 1700) :
                  opts \in InitOptions, sel \in CatalogSelect(PomiCanaries, 2)} }

InitProbe ==
    /\ now \in Instants
    /\ cfg \in Configs
    /\ registry = cfg.drivers
    /\ store = << >>
    /\ issued = << >>
    /\ sessions = << >>
    /\ res = NoResult
    /\ consumed = {}
    /\ wins = << >>
    /\ calls = [p \in Procs |-> IdleCall]
    /\ probe \in {[in |-> x, out |-> None] : x \in ProbeInputs(cfg)}

ApplySolve ==
    /\ probe # None
    /\ probe.out = None
    /\ LET x == probe.in
       IN  \E fam \in FamilyChoices(cfg, x.data, x.input) :
             probe' = [probe EXCEPT !.out = Some(
                [a |-> SolveAfterDelete(cfg, registry, x.data, x.id, x.input, now,
                                        x.sessions, fam, NewJti(x.id)).result,
                 b |-> SolveAfterDelete(cfg, registry, x.data, x.id,
                                        [x.input EXCEPT !.metadata = x.other_metadata],
                                        now, x.other_sessions, fam, NewJti(x.id)).result])]
    /\ UNCHANGED <<now, cfg, registry, store, issued, sessions, res, consumed, wins, calls>>

SpecProbe == InitProbe /\ [][ApplySolve]_vars

(***************************************************************************)
(* Functions applied on their own: the arguments are drawn at the start,   *)
(* one step applies the function and keeps what it returned.               *)
(***************************************************************************)
\* the engine is not involved: nothing but probe changes
ProbeStart(inputs) ==
    /\ now = 1700
    /\ cfg = PlainConfig
    /\ registry = cfg.drivers
    /\ store = << >>
    /\ issued = << >>
    /\ sessions = << >>
    /\ res = NoResult
    /\ consumed = {}
    /\ wins = << >>
    /\ calls = [p \in Procs |-> IdleCall]
    /\ probe \in {[in |-> x, out |-> None] : x \in inputs}

\* the function has not been applied yet
ProbeReady == probe # None /\ probe.out = None

\* applying a function changes nothing of the engine
ProbeFrame ==
    UNCHANGED <<now, cfg, registry, store, issued, sessions, res, consumed, wins, calls>>

Applied == probe # None /\ probe.out # None

(***************************************************************************)
(* CanaryInjector.inject and the answer hash init_challenge stores         *)
(***************************************************************************)
\* a catalog with every injection method: three of DEFAULT_CANARIES and a
\* caller's own prefix canary
MixedCatalog ==
    << [id |-> "math-precision", injection_method |-> "inline"],
       [id |-> "custom-prefix", injection_method |-> "prefix"],
       [id |-> "random-numbers-5", injection_method |-> "suffix"],
       [id |-> "code-style", injection_method |-> "embedded"] >>

\* payloads of both drivers, one without context, one injected before
InjectPayloads ==
    LET g == DriverGenerate(CryptoNLDriver, "easy", "r1")
    IN  { g,
          DriverGenerate(MultiStepDriver, "hard", "r2"),
          [g EXCEPT !.context = None],
          Inject(g, << MixedCatalog[2] >>).payload }

InjectInputs ==
    { [catalog |-> c, payload |-> p, count |-> n, exclude |-> e, opts |-> o] :
        c \in {PomiCanaries, MixedCatalog}, p \in InjectPayloads, n \in {0 - 1, 0, 1, 2},
        e \in {None, Some(<< "math-precision" >>)}, o \in InitOptions }

\* inject on the arguments drawn, and the challenge init_challenge builds
\* with PoMI on and with PoMI off
ApplyInject ==
    /\ ProbeReady
    /\ LET x == probe.in
           on == [FullConfig EXCEPT !.pomi = TRUE]
           off == [FullConfig EXCEPT !.pomi = FALSE]
       IN  \E r \in InjectorInject(x.catalog, x.payload, x.count, x.exclude),
              sel \in CatalogSelect(PomiCanaries, 2) :
                probe' = [probe EXCEPT !.out = Some(
                    [injection |-> r,
                     with_pomi |-> NewChallenge(on, on.drivers, x.opts, sel, 1, now),
                     without_pomi |-> NewChallenge(off, off.drivers, x.opts, sel, 1, now)])]
    /\ ProbeFrame

SpecInject == ProbeStart(InjectInputs) /\ [][ApplyInject]_vars

(***************************************************************************)
(* TokenVerifier.verify and guard.verify_request on arbitrary tokens       *)
(***************************************************************************)
\* the claims of AgentAuthClaims and the type pydantic wants for each
ClaimOrder ==
    << "sub", "iss", "iat", "exp", "jti", "capabilities", "model_family",
       "challenge_ids", "agentauth_version" >>

ClaimKinds ==
    [k \in {ClaimOrder[i] : i \in 1..Len(ClaimOrder)} |->
        CASE k \in {"sub", "iss", "jti", "model_family", "agentauth_version"} -> "str"
          [] k \in {"iat", "exp"} -> "int"
          [] k = "capabilities" -> "caps"
          [] k = "challenge_ids" -> "list"]

\* a JSON value is the pair of its type and its content
Absent == << "absent" >>
Claim(payload, k) == IF k \in DOMAIN payload THEN payload[k] ELSE Absent

\* jwt.encode on a JSON object: the object and its HS256 signature
WireSigningInput(payload) ==
    ToString([i \in 1..Len(ClaimOrder) |-> Claim(payload, ClaimOrder[i])])

WireEncode(payload, key) ==
    [wellformed |-> TRUE, payload |-> payload,
     signature |-> hmac_sha256_hex(WireSigningInput(payload), key)]

\* a string that is not three base64 segments of JSON
MalformedToken == [wellformed |-> FALSE, payload |-> << >>, signature |-> ""]

\* jwt.decode(token, secret, algorithms=["HS256"], issuer="agentauth",
\* options={"require": [...]}) at t (ms): the exception class raised, or "ok"
JwtDecode(token, secret, t) ==
    LET p == token.payload
        require == {"exp", "iss", "sub", "iat", "jti"}
    IN  IF ~token.wellformed THEN "DecodeError"
        ELSE IF token.signature # hmac_sha256_hex(WireSigningInput(p), secret)
        THEN "InvalidSignatureError"
        ELSE IF \E k \in require : k \notin DOMAIN p THEN "MissingRequiredClaimError"
        ELSE IF p["iat"][1] # "int" THEN "InvalidIssuedAtError"
        ELSE IF p["exp"][1] # "int" THEN "DecodeError"
        ELSE IF p["exp"][2] * 1000 <= t THEN "ExpiredSignatureError"
        ELSE IF p["iss"][1] # "str" THEN "InvalidIssuerError"
        ELSE IF p["iss"][2] # "agentauth" THEN "InvalidIssuerError"
        ELSE "ok"

\* AgentAuthClaims(**payload): pydantic accepts the object
ClaimsValidate(payload) ==
    \A k \in DOMAIN ClaimKinds : Claim(payload, k)[1] = ClaimKinds[k]

Raised(exception, status, error_type) ==
    [outcome |-> exception, status |-> status, error_type |-> error_type,
     claims |-> None, headers |-> << >>]

\* TokenVerifier.verify: the claims, or the exception that leaves the call
VerifierVerify(token, secret, t) ==
    LET d == JwtDecode(token, secret, t)
    IN  IF d = "ok"
        THEN IF ClaimsValidate(token.payload)
             THEN [outcome |-> "claims", status |-> 0, error_type |-> "",
                   claims |-> Some(token.payload), headers |-> << >>]
             ELSE Raised("ValidationError", 0, "")
        ELSE IF d = "ExpiredSignatureError" THEN Raised("AgentAuthError", 401, "token_expired")
        ELSE IF d = "InvalidIssuerError" THEN Raised("AgentAuthError", 401, "invalid_issuer")
        ELSE IF d = "InvalidSignatureError"
        THEN Raised("AgentAuthError", 401, "invalid_signature")
        ELSE Raised("AgentAuthError", 401, "invalid_token")

\* the sum of the five capabilities, in thousandths
CapabilitySum(caps) == caps[1] + caps[2] + caps[3] + caps[4] + caps[5]

\* avg < config.min_score, avg being sum / 5
Insufficient(sum, min_score) == sum < 5 * min_score

\* guard.verify_request(token, GuardConfig(secret, min_score)) at t (ms)
VerifyRequest(token, config, t) ==
    LET v == VerifierVerify(token, config.secret, t)
    IN  IF v.outcome # "claims" THEN v
        ELSE LET claims == v.claims[1]
                 sum == CapabilitySum(claims["capabilities"][2])
                 ids == claims["challenge_ids"][2]
                 headers ==
                    [h \in {"AgentAuth-Status", "AgentAuth-Score", "AgentAuth-Model-Family",
                            "AgentAuth-Capabilities", "AgentAuth-Version"} |->
                        CASE h = "AgentAuth-Status" -> "verified"
                          [] h = "AgentAuth-Score" -> ToString(Round(sum, 50))
                          [] h = "AgentAuth-Model-Family" -> claims["model_family"][2]
                          [] h = "AgentAuth-Capabilities" ->
                                ToString(claims["capabilities"][2])
                          [] h = "AgentAuth-Version" -> claims["agentauth_version"][2]]
                 challenge == IF Len(ids) > 0 THEN ("AgentAuth-Challenge-Id" :> ids[1])
                              ELSE << >>
                 expires == ("AgentAuth-Token-Expires" :> ToString(claims["exp"][2]))
             IN  IF Insufficient(sum, config.min_score)
                 THEN Raised("AgentAuthError", 403, "insufficient_score")
                 ELSE [outcome |-> "result", status |-> 0, error_type |-> "",
                       claims |-> v.claims, headers |-> headers @@ challenge @@ expires]

\* CLAIMS_PAYLOAD of the tests at second 1, with the capabilities given
BaseClaims(caps, exp, iss) ==
    [k \in DOMAIN ClaimKinds |->
        CASE k = "sub" -> << "str", "agent-123" >>
          [] k = "iss" -> << "str", iss >>
          [] k = "iat" -> << "int", 1 >>
          [] k = "exp" -> << "int", exp >>
          [] k = "jti" -> << "str", "test-jti-001" >>
          [] k = "capabilities" -> << "caps", caps >>
          [] k = "model_family" -> << "str", "gpt-4" >>
          [] k = "challenge_ids" -> << "list", << "ch-001" >> >>
          [] k = "agentauth_version" -> << "str", "1" >>]

Without(payload, k) == [j \in DOMAIN payload \ {k} |-> payload[j]]

\* one defect put into a payload before it is signed
Defects ==
    { "none", "no_exp", "exp_not_a_number", "iat_not_a_number", "no_capabilities",
      "model_family_a_number", "no_agentauth_version", "empty_challenge_ids" }

WithDefect(payload, defect) ==
    CASE defect = "none" -> payload
      [] defect = "no_exp" -> Without(payload, "exp")
      [] defect = "exp_not_a_number" -> [payload EXCEPT !["exp"] = << "str", "soon" >>]
      [] defect = "iat_not_a_number" -> [payload EXCEPT !["iat"] = << "str", "now" >>]
      [] defect = "no_capabilities" -> Without(payload, "capabilities")
      [] defect = "model_family_a_number" -> [payload EXCEPT !["model_family"] = << "int", 4 >>]
      [] defect = "no_agentauth_version" -> Without(payload, "agentauth_version")
      [] defect = "empty_challenge_ids" ->
            [payload EXCEPT !["challenge_ids"] = << "list", << >> >>]

\* capabilities in thousandths: the tests' (mean 0.836), all 0.1, all 0.7,
\* and a mean one thousandth of a fifth below 0.7
CapabilityInputs ==
    { << 900, 850, 800, 750, 880 >>, << 100, 100, 100, 100, 100 >>,
      << 700, 700, 700, 700, 700 >>, << 700, 700, 700, 700, 699 >> }

GuardSecret == "test-secret-key-for-agentauth"

TokenProbeInputs ==
    { [token |-> MalformedToken, defect |-> "malformed", key |-> GuardSecret,
       exp |-> 3601, iss |-> "agentauth",
       config |-> [secret |-> GuardSecret, min_score |-> 700]] }
    \cup
    { [token |-> WireEncode(WithDefect(BaseClaims(caps, exp, iss), d), key), defect |-> d,
       key |-> key, exp |-> exp, iss |-> iss, config |-> [secret |-> GuardSecret, min_score |-> 700]] :
        caps \in CapabilityInputs, exp \in {1, 3601}, iss \in {"agentauth", "not-agentauth"},
        d \in Defects, key \in {GuardSecret, "wrong-secret"} }

\* verify and verify_request on the token drawn
ApplyVerify ==
    /\ ProbeReady
    /\ probe' = [probe EXCEPT !.out = Some(
            [verify |-> VerifierVerify(probe.in.token, probe.in.config.secret, now),
             guard |-> VerifyRequest(probe.in.token, probe.in.config, now)])]
    /\ ProbeFrame

SpecToken == ProbeStart(TokenProbeInputs) /\ [][ApplyVerify]_vars

(***************************************************************************)
(* The four drivers: verify against the hash of a generated payload        *)
(***************************************************************************)
AllDrivers == { CryptoNLDriver, MultiStepDriver, AmbiguousLogicDriver, CodeExecutionDriver }
Difficulties == { "easy", "medium", "hard", "adversarial" }

\* answers submitted for a payload: its solution, the solution of another
\* payload, other strings, and values that are not strings
SubmittedAnswers(payload) ==
    { << "str", DriverSolve(payload) >>,
      << "str", DriverSolve([payload EXCEPT !.data = "other"]) >>,
      << "str", "" >>, << "str", "wrong" >> }
    \cup { << "str", x >> : x \in SurrogateStrings }
    \cup { << "int", 42 >>, << "null" >>, << "list", << DriverSolve(payload) >> >> }

DriverProbeInputs ==
    UNION { { [driver |-> d, payload |-> DriverGenerate(d, diff, rnd), answer |-> x] :
                x \in SubmittedAnswers(DriverGenerate(d, diff, rnd)) } :
            d \in AllDrivers, diff \in Difficulties, rnd \in {"r1", "r2"} }

\* compute_answer_hash, solve and verify of the payload's driver
ApplyDriverVerify ==
    /\ ProbeReady
    /\ probe' = [probe EXCEPT !.out = Some(
            [answer_hash |-> DriverComputeAnswerHash(probe.in.payload),
             solution |-> DriverSolve(probe.in.payload),
             verified |-> DriverVerifyAny(DriverComputeAnswerHash(probe.in.payload),
                                          probe.in.answer)])]
    /\ ProbeFrame

SpecDrivers == ProbeStart(DriverProbeInputs) /\ [][ApplyDriverVerify]_vars

(***************************************************************************)
(* TimingAnalyzer.analyze on any baseline, elapsed time and RTT            *)
(***************************************************************************)
\* baselines a TimingConfig can carry besides the defaults: zones of width
\* zero, and a human zone that does not end at the timeout
CustomBaselines ==
    { Baseline("custom", "easy", 100, 100, 100, 100),
      Baseline("custom", "medium", 50, 2000, 2000, 30000),
      Baseline("custom", "hard", 0, 1000, 5000, 5000),
      Baseline("custom", "adversarial", 10, 11, 14, 20) }

BaselineInputs == DEFAULT_BASELINES \cup {MakeDefaultBaseline} \cup CustomBaselines

\* twice the elapsed times tried on a baseline: each boundary, half a
\* millisecond and a whole one on either side, and a point inside each zone
ElapsedInputs(b) ==
    { e2 \in UNION { {2 * x - 2, 2 * x - 1, 2 * x, 2 * x + 1, 2 * x + 2, 2 * x + 202} :
                        x \in {b.too_fast_ms, b.ai_upper_ms, b.human_ms, b.timeout_ms} }
               \cup {0, b.ai_upper_ms + b.human_ms, b.human_ms + b.timeout_ms,
                     3 * b.timeout_ms} : e2 >= 0 }

\* rtt_ms as analyze receives it: None, or a value of any sign and size
RttInputs == { None, Some(0), Some(0 - 50), Some(100), Some(1000), Some(100000) }

ZoneProbeInputs ==
    UNION { { [baseline |-> b, e2 |-> e2, rtt_ms |-> r] :
                e2 \in ElapsedInputs(b), r \in RttInputs } : b \in BaselineInputs }

ApplyAnalyze ==
    /\ ProbeReady
    /\ probe' = [probe EXCEPT !.out =
                    Some(AnalyzeWith(probe.in.baseline, probe.in.e2, probe.in.rtt_ms))]
    /\ ProbeFrame

SpecZone == ProbeStart(ZoneProbeInputs) /\ [][ApplyAnalyze]_vars

(***************************************************************************)
(* AgentAuthEngine._compute_score on any challenge and analysis            *)
(***************************************************************************)
\* dimensions of the four drivers and of drivers a caller registers
DimensionInputs ==
    { d.dimensions : d \in AllDrivers } \cup { << >>, << "memory" >>, << "execution", "speed" >> }

\* timing analyses: none, or a zone with a penalty analyze reports for it
TimingInputs ==
    { None } \cup { Some([elapsed_ms |-> 0, zone |-> "ai_zone", penalty |-> 0]),
                    Some([elapsed_ms |-> 0, zone |-> "human", penalty |-> 900]),
                    Some([elapsed_ms |-> 0, zone |-> "too_fast", penalty |-> 1000]),
                    Some([elapsed_ms |-> 0, zone |-> "timeout", penalty |-> 1000]) }
    \cup { Some([elapsed_ms |-> 0, zone |-> "suspicious", penalty |-> p]) :
            p \in {300, 310, 457, 500, 698, 700} }

PatternInputs ==
    { None } \cup { Some([verdict |-> v]) : v \in {"natural", "artificial", "inconclusive"} }

ScoreProbeInputs ==
    { [dimensions |-> d, timing_analysis |-> ta, pattern_analysis |-> pa] :
        d \in DimensionInputs, ta \in TimingInputs, pa \in PatternInputs }

ApplyComputeScore ==
    /\ ProbeReady
    /\ probe' = [probe EXCEPT !.out = Some(
            ComputeScore([challenge |-> [dimensions |-> probe.in.dimensions]],
                         probe.in.timing_analysis, probe.in.pattern_analysis))]
    /\ ProbeFrame

SpecScore == ProbeStart(ScoreProbeInputs) /\ [][ApplyComputeScore]_vars

(***************************************************************************)
(* RTT compensation of solve_challenge on any base time and reported RTT   *)
(***************************************************************************)
\* base elapsed times (ms) and the client_rtt_ms values tried on each:
\* absent, negative, zero, either side of half the base time, and huge
BaseElapsedInputs == (0..12) \cup {100, 101, 1500, 30001}

ClientRttInputs(b) ==
    { None, Some(0 - 5), Some(0), Some(1), Some(1000000) }
    \cup { Some(r) : r \in {b \div 2, (b \div 2) + 1, b, 2 * b} }

RttProbeInputs ==
    UNION { { [base_elapsed |-> b, client_rtt_ms |-> r] : r \in ClientRttInputs(b) } :
            b \in BaseElapsedInputs }

\* twice the RTT subtracted and twice the elapsed time handed to analyze
ApplyCompensation ==
    /\ ProbeReady
    /\ LET rtt2 == CompensatedRtt2(probe.in.base_elapsed, probe.in.client_rtt_ms)
       IN  probe' = [probe EXCEPT !.out =
                        Some([rtt2 |-> rtt2, elapsed2 |-> 2 * probe.in.base_elapsed - rtt2])]
    /\ ProbeFrame

SpecRtt == ProbeStart(RttProbeInputs) /\ [][ApplyCompensation]_vars

(***************************************************************************)
(* SessionTimingTracker: record, clear and analyze in any order            *)
(***************************************************************************)
TrackedSessions == { "s1", "s2" }

\* the (elapsed_ms, zone) pairs recorded: the coefficient of variation of
\* 1000, 1000, 1100 is below 0.05 (0.046), that of 1000, 1000, 1110 just
\* above (0.05002)
RecordInputs(session_id) ==
    IF session_id = "s1"
    THEN { << 1000, "ai_zone" >>, << 1100, "suspicious" >>, << 1110, "ai_zone" >>,
           << 2000, "human" >> }
    ELSE { << 1000, "ai_zone" >> }

\* the instants of the calls: 4999 ms, then 1 ms, then 5000 ms later
TrackerInstants == << 1700, 6699, 6700, 11700 >>

StoredEntries == SumSeq([i \in 1..2 |->
                    LET k == IF i = 1 THEN "s1" ELSE "s2"
                    IN  IF k \in DOMAIN sessions THEN Len(sessions[k]) ELSE 0])

TrackerFrame == UNCHANGED <<cfg, registry, store, issued, res, consumed, wins, calls>>

InitTracker ==
    /\ now = TrackerInstants[1]
    /\ cfg = FullConfig
    /\ registry = cfg.drivers
    /\ store = << >>
    /\ issued = << >>
    /\ sessions = << >>
    /\ res = NoResult
    /\ consumed = {}
    /\ wins = << >>
    /\ calls = [p \in Procs |-> IdleCall]
    /\ probe = None

TrackRecord ==
    /\ StoredEntries < MaxEntries
    /\ \E session_id \in TrackedSessions : \E x \in RecordInputs(session_id) :
          sessions' = TrackerRecord(sessions, session_id, x[1], x[2], now)
    /\ probe' = None
    /\ UNCHANGED now
    /\ TrackerFrame

TrackClear ==
    /\ \E session_id \in TrackedSessions :
          /\ sessions' = TrackerClear(sessions, session_id)
          /\ probe' = [in |-> [op |-> "clear", session_id |-> session_id, after_clear |-> FALSE],
                       out |-> None]
    /\ UNCHANGED now
    /\ TrackerFrame

TrackAnalyze ==
    /\ \E session_id \in TrackedSessions :
          probe' = [in |-> [op |-> "analyze", session_id |-> session_id,
                            after_clear |-> /\ probe # None
                                            /\ probe.in.op = "clear"
                                            /\ probe.in.session_id = session_id],
                    out |-> Some(TrackerAnalyze(sessions, session_id))]
    /\ UNCHANGED <<now, sessions>>
    /\ TrackerFrame

TrackTick ==
    /\ \E i \in 1..(Len(TrackerInstants) - 1) :
          now = TrackerInstants[i] /\ now' = TrackerInstants[i + 1]
    /\ probe' = None
    /\ UNCHANGED sessions
    /\ TrackerFrame

NextTracker == TrackRecord \/ TrackClear \/ TrackAnalyze \/ TrackTick

SpecTracker == InitTracker /\ [][NextTracker]_vars

(***************************************************************************)
(* pomi/classifier.py: the Bayesian update, in exact arithmetic            *)
(***************************************************************************)
\* the families of an engine whose PomiConfig names none
DefaultFamilies ==
    << "gpt-4-class", "claude-3-class", "gemini-class", "llama-class", "mistral-class" >>

\* FAMILIES of the classifier tests
TestFamilies == << "gpt-4-class", "claude-3-class", "gemini-class" >>

\* exact_match canaries; confidence_weight in hundredths
MathPrecision ==
    [id |-> "math-precision", confidence_weight |-> 20,
     expected |-> [f \in {DefaultFamilies[i] : i \in 1..5} |->
                     IF f = "claude-3-class" THEN "0.30000000000000004" ELSE "0.3"]]

TestCanary ==
    [id |-> "test-canary", confidence_weight |-> 50,
     expected |-> ("gpt-4-class" :> "hello") @@ ("claude-3-class" :> "hi")
                    @@ ("gemini-class" :> "hey")]

\* str.strip().lower() on the responses tried
StripLower(s) == IF s = " Hello " THEN "hello" ELSE s

\* a likelihood that rewards the families whose expected answer differs
ComputeLikelihoodInverted(canary, response, family) ==
    IF family \notin DOMAIN canary.expected THEN 5000
    ELSE IF StripLower(response) = StripLower(canary.expected[family])
    THEN 5000 - 40 * canary.confidence_weight
    ELSE 5000 + 50 * canary.confidence_weight

\* ModelClassifier._compute_likelihood for an exact_match canary, in 1/10000
ComputeLikelihood(canary, response, family) ==
    IF family \notin DOMAIN canary.expected THEN 5000
    ELSE IF StripLower(response) = StripLower(canary.expected[family])
    THEN 5000 + 50 * canary.confidence_weight
    ELSE 5000 - 40 * canary.confidence_weight

\* the posteriors after the canaries from the i-th on, as integer weights
\* with the same ratios (normalising divides all of them by their sum)
RECURSIVE Posteriors(_, _, _, _, _)
Posteriors(families, canaries, responses, i, weights) ==
    IF i > Len(canaries) THEN weights
    ELSE IF canaries[i].id \notin DOMAIN responses
    THEN Posteriors(families, canaries, responses, i + 1, weights)
    ELSE Posteriors(families, canaries, responses, i + 1,
            Reduced([k \in 1..Len(families) |->
                weights[k] * ComputeLikelihood(canaries[i], responses[canaries[i].id],
                                               families[k])]))

\* CanaryExtractor.extract: one piece of evidence per canary answered
Extract(canaries, responses) ==
    LET answered == SelectSeq(canaries, LAMBDA c : c.id \in DOMAIN responses)
    IN  [i \in 1..Len(answered) |->
            [canary_id |-> answered[i].id,
             observed |-> responses[answered[i].id],
             match |-> \E f \in DOMAIN answered[i].expected :
                          StripLower(responses[answered[i].id])
                             = StripLower(answered[i].expected[f])]]

\* list.sort(key=confidence, reverse=True) on the alternatives: stable
SortedAlternatives(alts) ==
    LET n == Len(alts)
        rank(i) == 1 + Cardinality({j \in 1..n :
                        alts[j].confidence > alts[i].confidence
                        \/ (alts[j].confidence = alts[i].confidence /\ j < i)})
    IN  [r \in 1..n |-> alts[CHOOSE i \in 1..n : rank(i) = r]]

\* ModelClassifier.classify; the threshold is in thousandths, responses is
\* None or Some(dict); confidences are thousandths after round(p * 1000)
\* and posteriors is the dict of that name when classify returns
Classify(families, confidence_threshold, canaries, canary_responses) ==
    LET unknown == [family |-> "unknown", confidence |-> 0, evidence |-> << >>,
                    alternatives |-> << >>, posteriors |-> << >>]
    IN  IF canary_responses = None THEN unknown
        ELSE IF DOMAIN canary_responses[1] = {} \/ Len(canaries) = 0 THEN unknown
        ELSE IF Len(Extract(canaries, canary_responses[1])) = 0 THEN unknown
        ELSE LET n == Len(families)
                 w == Posteriors(families, canaries, canary_responses[1], 1,
                                 [k \in 1..n |-> 1])
                 total == SumSeq(w)
                 best == CHOOSE k \in 1..n :
                            /\ \A j \in 1..n : w[j] <= w[k]
                            /\ \A j \in 1..(k - 1) : w[j] < w[k]
                 conf(k) == Round(1000 * w[k], total)
                 others == SelectSeq([k \in 1..n |-> k], LAMBDA k : k # best)
                 alternatives ==
                    SortedAlternatives([i \in 1..Len(others) |->
                        [family |-> families[others[i]], confidence |-> conf(others[i])]])
             IN  IF 1000 * w[best] < confidence_threshold * total
                 THEN [family |-> "unknown", confidence |-> conf(best),
                       evidence |-> Extract(canaries, canary_responses[1]),
                       alternatives |->
                          << [family |-> families[best], confidence |-> conf(best)] >>
                             \o alternatives,
                       posteriors |-> w]
                 ELSE [family |-> families[best], confidence |-> conf(best),
                       evidence |-> Extract(canaries, canary_responses[1]),
                       alternatives |-> alternatives,
                       posteriors |-> w]

ResponseInputs ==
    { None, Some(<< >>), Some(("math-precision" :> "0.3")),
      Some(("math-precision" :> "0.30000000000000004")),
      Some(("math-precision" :> "banana")),
      Some(("test-canary" :> "hello")), Some(("test-canary" :> " Hello ")),
      Some(("test-canary" :> "hi")),
      Some(("math-precision" :> "0.3") @@ ("test-canary" :> "hello")),
      Some(("math-precision" :> "0.30000000000000004") @@ ("test-canary" :> "hi")),
      Some(("random-numbers-5" :> "7")) }

ClassifyInputs ==
    { [families |-> f, confidence_threshold |-> t, canaries |-> c, canary_responses |-> r] :
        f \in {DefaultFamilies, TestFamilies, << "gpt-4-class", "gemini-class" >>},
        t \in {300, 500, 990},
        c \in {<< >>, << MathPrecision >>, << TestCanary >>, << MathPrecision, TestCanary >>},
        r \in ResponseInputs }

ApplyClassify ==
    /\ ProbeReady
    /\ probe' = [probe EXCEPT !.out =
                    Some(Classify(probe.in.families, probe.in.confidence_threshold,
                                  probe.in.canaries, probe.in.canary_responses))]
    /\ ProbeFrame

SpecClassify == ProbeStart(ClassifyInputs) /\ [][ApplyClassify]_vars

(***************************************************************************)
(* ChallengeRegistry: register and select in any order, and init_challenge *)
(* on the registry they leave                                              *)
(***************************************************************************)
\* a driver of tests/test_registry.py that takes the name of a built-in one
FakeDriver == [name |-> "crypto-nl", dimensions |-> <<"memory", "ambiguity">>]

DriverPool ==
    { CryptoNLDriver, MultiStepDriver, AmbiguousLogicDriver, FakeDriver }

\* the dimensions argument: absent, empty, one or two requested dimensions
DimensionChoices ==
    { None, Some(<< >>), Some(<< "memory" >>), Some(<< "execution" >>),
      Some(<< "ambiguity", "memory" >>) }

CountInputs == { -1, 0, 1, 2 }

RegistryFrame == UNCHANGED <<now, cfg, sessions, consumed, calls, probe>>

InitRegistry ==
    /\ now = 1700
    /\ cfg = PlainConfig
    /\ registry = << >>
    /\ store = << >>
    /\ issued = << >>
    /\ sessions = << >>
    /\ res = NoResult
    /\ consumed = {}
    /\ wins = << >>
    /\ calls = [p \in Procs |-> IdleCall]
    /\ probe = None

\* engine.register_driver -> ChallengeRegistry.register
RegisterDriver ==
    /\ \E driver \in DriverPool :
          LET r == RegistryRegister(registry, driver)
          IN  /\ registry' = r.drivers
              /\ res' = [op |-> "register", id |-> driver.name, input |-> Some(driver),
                         out |-> None, raised |-> r.raised]
    /\ UNCHANGED <<store, issued, wins>>
    /\ RegistryFrame

\* ChallengeRegistry.select
SelectDrivers ==
    /\ \E dimensions \in DimensionChoices, count \in CountInputs :
          res' = [op |-> "select", id |-> "",
                  input |-> Some([dimensions |-> dimensions, count |-> count]),
                  out |-> IF RegistrySelectRaises(registry) THEN None
                          ELSE Some(RegistrySelect(registry, dimensions, count)),
                  raised |-> IF RegistrySelectRaises(registry) THEN "ValueError" ELSE ""]
    /\ UNCHANGED <<registry, store, issued, wins>>
    /\ RegistryFrame

\* init_challenge: select raises before anything is generated or stored
InitOnRegistry ==
    /\ \E dimensions \in DimensionChoices :
          LET opts == [difficulty |-> None, dimensions |-> dimensions]
          IN  IF RegistrySelectRaises(registry)
              THEN /\ res' = [op |-> "init", id |-> "", input |-> opts, out |-> None,
                              raised |-> "ValueError"]
                   /\ UNCHANGED <<store, issued, wins>>
                   /\ RegistryFrame
                   /\ UNCHANGED registry
              ELSE InitChallenge(opts, << >>)

NextRegistry == RegisterDriver \/ SelectDrivers \/ InitOnRegistry

SpecRegistry == InitRegistry /\ [][NextRegistry]_vars





(***************************************************************************)
(* challenges/crypto_nl.py: the op pipeline generate draws and solve runs. *)
(* A buffer is its length: which ops raise depends on nothing else.        *)
(***************************************************************************)
BASIC_OPS == << "xor", "reverse", "slice", "sort", "rotate" >>
MEDIUM_OPS == BASIC_OPS \o << "sha256", "bitwise_not" >>
ALL_OPS == MEDIUM_OPS \o << "repeat", "hmac", "base64_encode" >>

OPS_BY_DIFFICULTY(difficulty) ==
    CASE difficulty = "easy" -> BASIC_OPS
      [] difficulty = "medium" -> MEDIUM_OPS
      [] OTHER -> ALL_OPS

\* DIFFICULTY_CONFIG; the pipeline of the model has at most MaxOps ops
CryptoConfig(difficulty) ==
    LET ops == DriverSteps("crypto-nl", difficulty, "r1")
    IN  [ops |-> IF ops < MaxOps THEN ops ELSE MaxOps,
         dataSize |-> CASE difficulty = "easy" -> 16 [] difficulty = "medium" -> 32
                        [] difficulty = "hard" -> 64 [] OTHER -> 128]

Min(a, b) == IF a < b THEN a ELSE b

\* the (start, end) pairs _generate_ops can draw for a slice: start from
\* 0..size/4, end from start+4..min(start + size/2, size); the model draws
\* each at the ends of its range
SliceDraws(data_size) ==
    UNION { { << start, end >> : end \in {start + 4,
                                          Min(start + data_size \div 2, data_size)} } :
              start \in {0, data_size \div 4} }

\* the ByteOperations one turn of the loop of _generate_ops can append for
\* the op it picked
OpDraws(op, data_size) ==
    CASE op = "xor" -> { [op |-> op, params |-> [key |-> 255]] }
      [] op = "slice" ->
            { [op |-> op, params |-> [start |-> se[1], end |-> se[2]]] :
                se \in SliceDraws(data_size) }
      [] op = "rotate" -> { [op |-> op, params |-> [positions |-> data_size \div 2]] }
      [] op = "repeat" -> { [op |-> op, params |-> [times |-> t]] : t \in {2, 3} }
      [] op = "hmac" -> { [op |-> op, params |-> [keyHex |-> "k1"]] }
      [] OTHER -> { [op |-> op, params |-> << >>] }

\* _apply_op on a buffer of n bytes: the length of the result, or the
\* exception of `positions % len(data)` on an empty buffer
ApplyOp(n, op) ==
    CASE op.op = "slice" ->
            LET start == Min(op.params.start, n)
                end == Min(op.params.end, n)
            IN  [raised |-> "", len |-> IF end > start THEN end - start ELSE 0]
      [] op.op = "rotate" ->
            IF n = 0 THEN [raised |-> "ZeroDivisionError", len |-> 0]
            ELSE [raised |-> "", len |-> n]
      [] op.op \in {"sha256", "hmac"} -> [raised |-> "", len |-> 32]
      [] op.op = "repeat" -> [raised |-> "", len |-> n * op.params.times]
      [] op.op = "base64_encode" -> [raised |-> "", len |-> 4 * ((n + 2) \div 3)]
      [] OTHER -> [raised |-> "", len |-> n]

\* _execute_ops from op i on: the first exception ends the pipeline
RECURSIVE ExecuteOps(_, _, _)
ExecuteOps(n, ops, i) ==
    IF i > Len(ops) THEN [raised |-> "", len |-> n]
    ELSE LET r == ApplyOp(n, ops[i])
         IN  IF r.raised # "" THEN r ELSE ExecuteOps(r.len, ops, i + 1)

\* generate has drawn its data and is in the loop of _generate_ops
InitCrypto ==
    ProbeStart({ [difficulty |-> d, ops |-> << >>] : d \in Difficulties })

\* one turn of the loop of _generate_ops
GenerateOp ==
    /\ ProbeReady
    /\ Len(probe.in.ops) < CryptoConfig(probe.in.difficulty).ops
    /\ \E i \in 1..Len(OPS_BY_DIFFICULTY(probe.in.difficulty)) :
          \E op \in OpDraws(OPS_BY_DIFFICULTY(probe.in.difficulty)[i],
                            CryptoConfig(probe.in.difficulty).dataSize) :
             probe' = [probe EXCEPT !.in.ops = Append(@, op)]
    /\ ProbeFrame

\* compute_answer_hash -> solve -> _execute_ops on the payload generate built
ComputeAnswerHash ==
    /\ ProbeReady
    /\ Len(probe.in.ops) = CryptoConfig(probe.in.difficulty).ops
    /\ probe' = [probe EXCEPT !.out =
                    Some(ExecuteOps(CryptoConfig(probe.in.difficulty).dataSize,
                                    probe.in.ops, 1))]
    /\ ProbeFrame

NextCrypto == GenerateOp \/ ComputeAnswerHash

SpecCrypto == InitCrypto /\ [][NextCrypto]_vars

(***************************************************************************)
(* challenges/multi_step.py: _generate_steps draws a step and executes it  *)
(* at once. A step's result is its length in bytes.                        *)
(***************************************************************************)
DIFFICULTY_CONFIGS(difficulty) ==
    CASE difficulty = "easy" ->
            [total_steps |-> 3, data_size |-> 32, compute_steps |-> 3,
             memory_recall |-> 0, memory_apply |-> 0]
      [] difficulty = "medium" ->
            [total_steps |-> 4, data_size |-> 32, compute_steps |-> 3,
             memory_recall |-> 1, memory_apply |-> 0]
      [] difficulty = "hard" ->
            [total_steps |-> 5, data_size |-> 64, compute_steps |-> 3,
             memory_recall |-> 1, memory_apply |-> 1]
      [] OTHER ->
            [total_steps |-> 7, data_size |-> 64, compute_steps |-> 4,
             memory_recall |-> 2, memory_apply |-> 1]

\* data[start:end] on n bytes
SliceLen(n, start, end) ==
    IF Min(end, n) > Min(start, n) THEN Min(end, n) - Min(start, n) ELSE 0

\* the ends of the range of _random_int(min_val, max_val); for max_val below
\* min_val, floor(random() * (max_val - min_val + 1)) + min_val is min_val
RandomIntDraws(min_val, max_val) ==
    IF max_val < min_val THEN {min_val} ELSE {min_val, max_val}

\* _generate_compute_step; step_index counts from 0, results[step_index] is
\* the result of the step before
GenerateComputeStepDraws(step_index, data_size, results) ==
    LET prev_result_len ==
            IF step_index = 0 THEN data_size
            ELSE IF Len(results) = 0 \/ results[step_index] = 0 THEN 32
            ELSE results[step_index]
        max_end == IF prev_result_len > 4 THEN prev_result_len ELSE 4
        slices == UNION { { [type |-> "slice", start |-> start, end |-> end] :
                              end \in RandomIntDraws(start + 2,
                                        Min(start + max_end \div 2, max_end)) } :
                            start \in RandomIntDraws(0, max_end \div 4) }
    IN  { [type |-> "sha256"], [type |-> "xor", key |-> 255] }
            \cup (IF step_index = 0 THEN {}
                  ELSE { [type |-> "hmac", key |-> ""] } \cup slices)

\* _generate_memory_recall_step
GenerateMemoryRecallDraws(results) ==
    UNION { { [type |-> "memory_recall", step |-> step_idx, byteIndex |-> byte_index] :
                byte_index \in RandomIntDraws(0, results[step_idx + 1] - 1) } :
              step_idx \in 0..(Len(results) - 1) }

\* _generate_memory_apply_step
GenerateMemoryApplyDraws(steps) ==
    LET compute_steps == { i \in 0..(Len(steps) - 1) :
                             steps[i + 1].type \notin {"memory_recall", "memory_apply"} }
    IN  IF compute_steps = {} THEN { [type |-> "memory_apply", step |-> 0] }
        ELSE { [type |-> "memory_apply", step |-> i] : i \in compute_steps }

\* _execute_step for the four compute types
ExecuteComputeStep(step_index, step_def, data_size, results) ==
    LET source == IF step_index = 0 THEN data_size ELSE results[step_index]
    IN  CASE step_def.type \in {"sha256", "hmac"} -> 32
          [] step_def.type = "xor" -> source
          [] OTHER -> SliceLen(source, step_def.start, step_def.end)

\* _execute_step: the length of the result, or the exception of
\* data[byteIndex] past the end of the recalled result
ExecuteStep(step_index, step_def, data_size, steps, results) ==
    CASE step_def.type = "memory_recall" ->
            IF step_def.byteIndex >= results[step_def.step + 1]
            THEN [raised |-> "IndexError", len |-> 0]
            ELSE [raised |-> "", len |-> 1]
      [] step_def.type = "memory_apply" ->
            [raised |-> "",
             len |-> ExecuteComputeStep(step_index, steps[step_def.step + 1], data_size,
                                        results)]
      [] OTHER ->
            [raised |-> "",
             len |-> ExecuteComputeStep(step_index, step_def, data_size, results)]

InitMultiStep ==
    ProbeStart({ [difficulty |-> d, steps |-> << >>, results |-> << >>] :
                    d \in Difficulties })

\* the step is appended and executed; an exception ends generate
StepTaken(step_def) ==
    LET config == DIFFICULTY_CONFIGS(probe.in.difficulty)
        r == ExecuteStep(Len(probe.in.steps), step_def, config.data_size,
                         probe.in.steps, probe.in.results)
    IN  probe' = [in |-> [probe.in EXCEPT !.steps = Append(@, step_def),
                                          !.results = IF r.raised = "" THEN Append(@, r.len)
                                                      ELSE @],
                  out |-> IF r.raised # "" THEN Some(r)
                          ELSE IF Len(probe.in.steps) + 1 = config.total_steps
                          THEN Some(r) ELSE None]

\* one turn of the first loop of _generate_steps
GenerateComputeStep ==
    /\ ProbeReady
    /\ Len(probe.in.steps) < DIFFICULTY_CONFIGS(probe.in.difficulty).compute_steps
    /\ \E step_def \in GenerateComputeStepDraws(Len(probe.in.steps),
                            DIFFICULTY_CONFIGS(probe.in.difficulty).data_size,
                            probe.in.results) :
          StepTaken(step_def)
    /\ ProbeFrame

\* one turn of the second loop
GenerateMemoryRecallStep ==
    /\ ProbeReady
    /\ LET config == DIFFICULTY_CONFIGS(probe.in.difficulty)
       IN  /\ Len(probe.in.steps) >= config.compute_steps
           /\ Len(probe.in.steps) < config.compute_steps + config.memory_recall
    /\ \E step_def \in GenerateMemoryRecallDraws(probe.in.results) : StepTaken(step_def)
    /\ ProbeFrame

\* one turn of the third loop
GenerateMemoryApplyStep ==
    /\ ProbeReady
    /\ LET config == DIFFICULTY_CONFIGS(probe.in.difficulty)
       IN  /\ Len(probe.in.steps) >= config.compute_steps + config.memory_recall
           /\ Len(probe.in.steps) < config.total_steps
    /\ \E step_def \in GenerateMemoryApplyDraws(probe.in.steps) : StepTaken(step_def)
    /\ ProbeFrame

NextMultiStep ==
    GenerateComputeStep \/ GenerateMemoryRecallStep \/ GenerateMemoryApplyStep

SpecMultiStep == InitMultiStep /\ [][NextMultiStep]_vars

(***************************************************************************)
(* SessionTimingTracker.record called from several threads (the Flask      *)
(* middleware runs every request's coroutine on a thread of its own): a    *)
(* thread can be preempted between any two statements of record, which     *)
(* takes no lock.  A list is an object: probe.refs names the list that the *)
(* dict holds for a session, calls[p].data the list the thread's local     *)
(* `entries` refers to.                                                    *)
(***************************************************************************)
RecordThreadInputs == { << 1000, "ai_zone" >>, << 2000, "human" >> }

\* record calls that have been entered and have not returned
RecordedCalls == Cardinality({p \in Procs : calls[p].pc # "idle"})

ThreadsStart ==
    /\ now = TrackerInstants[1]
    /\ cfg = FullConfig
    /\ registry = cfg.drivers
    /\ store = << >>
    /\ issued = << >>
    /\ sessions = << >>
    /\ res = NoResult
    /\ consumed = {}
    /\ wins = << >>
    /\ calls = [p \in Procs |-> IdleCall]
    /\ probe = [refs |-> << >>, fresh |-> 1, completed |-> [s \in TrackedSessions |-> 0]]

ThreadsFrame == UNCHANGED <<now, cfg, registry, store, issued, res, consumed, wins>>

\* a thread enters record(session_id, elapsed_ms, zone)
RecordCall(p) ==
    /\ calls[p].pc = "idle"
    /\ StoredEntries + RecordedCalls < MaxEntries
    /\ \E session_id \in TrackedSessions, x \in RecordThreadInputs :
          calls' = [calls EXCEPT ![p] = [IdleCall EXCEPT !.pc = "get", !.id = session_id,
                                                           !.input = Some(x)]]
    /\ UNCHANGED <<sessions, probe>>
    /\ ThreadsFrame

\* line 24: entries = self._sessions.get(session_id)
RecordGet(p) ==
    /\ calls[p].pc = "get"
    /\ calls' = [calls EXCEPT
                    ![p].data = IF calls[p].id \in DOMAIN sessions
                                THEN Some(probe.refs[calls[p].id]) ELSE None,
                    ![p].pc = IF calls[p].id \in DOMAIN sessions THEN "append" ELSE "set"]
    /\ UNCHANGED <<sessions, probe>>
    /\ ThreadsFrame

\* lines 25-27: a new list is made and stored under the session id,
\* whatever the dict holds by now
RecordSet(p) ==
    /\ calls[p].pc = "set"
    /\ sessions' = (calls[p].id :> << >>) @@ sessions
    /\ probe' = [probe EXCEPT !.refs = (calls[p].id :> probe.fresh) @@ @,
                              !.fresh = @ + 1]
    /\ calls' = [calls EXCEPT ![p].data = Some(probe.fresh), ![p].pc = "append"]
    /\ ThreadsFrame

\* lines 28-34: entries.append(...) on the list the thread holds, which is
\* the session's list only while the dict still refers to it; record returns
RecordAppend(p) ==
    /\ calls[p].pc = "append"
    /\ LET session_id == calls[p].id
           x == calls[p].input[1]
       IN  /\ sessions' = IF probe.refs[session_id] = calls[p].data[1]
                          THEN TrackerRecord(sessions, session_id, x[1], x[2], now)
                          ELSE sessions
           /\ probe' = [probe EXCEPT !.completed[session_id] = @ + 1]
    /\ calls' = [calls EXCEPT ![p] = IdleCall]
    /\ ThreadsFrame

NextRecordThreads ==
    \/ \E p \in Procs : RecordCall(p)
    \/ \E p \in Procs : RecordGet(p)
    \/ \E p \in Procs : RecordSet(p)
    \/ \E p \in Procs : RecordAppend(p)

SpecRecordThreads == ThreadsStart /\ [][NextRecordThreads]_vars

(***************************************************************************)
(* MemoryStore used from several threads: set and delete are one dict      *)
(* operation each, get is three statements between which the thread can be *)
(* preempted; nothing is locked.                                           *)
(***************************************************************************)
StoreIds == { "ch_1" }
StoreData == { "d1", "d2" }

StoreThreadsStart ==
    /\ now = 1700
    /\ cfg = PlainConfig
    /\ registry = cfg.drivers
    /\ store = << >>
    /\ issued = << >>
    /\ sessions = << >>
    /\ res = NoResult
    /\ consumed = {}
    /\ wins = << >>
    /\ calls = [p \in Procs |-> IdleCall]
    /\ probe = None

StoreThreadsFrame == UNCHANGED <<cfg, registry, sessions, res, consumed, wins, probe>>

\* the thread is not inside a store operation
Returned(p) == calls[p].pc \in {"idle", "done"}

\* set, lines 21-25: one assignment to the dict
ThreadSet(p) ==
    /\ Returned(p)
    /\ \E id \in StoreIds, data \in StoreData :
          /\ store' = StoreSet(store, id, data, cfg.challenge_ttl_seconds, now)
          /\ issued' = (id :> ((IF id \in DOMAIN issued THEN issued[id] ELSE {})
                                  \cup {data})) @@ issued
          /\ calls' = [calls EXCEPT ![p] = [IdleCall EXCEPT !.pc = "done", !.id = id,
                                                              !.input = Some("set")]]
    /\ UNCHANGED now
    /\ StoreThreadsFrame

\* delete, lines 36-37: one pop with a default
ThreadDelete(p) ==
    /\ Returned(p)
    /\ \E id \in StoreIds :
          /\ store' = StoreDelete(store, id)
          /\ calls' = [calls EXCEPT ![p] = [IdleCall EXCEPT !.pc = "done", !.id = id,
                                                              !.input = Some("delete")]]
    /\ UNCHANGED <<now, issued>>
    /\ StoreThreadsFrame

\* get, line 28: entry = self._store.get(id)
ThreadGetEntry(p) ==
    /\ Returned(p)
    /\ \E id \in StoreIds :
          calls' = [calls EXCEPT ![p] =
                        [IdleCall EXCEPT !.pc = "check", !.id = id, !.input = Some("get"),
                                         !.data = IF id \in DOMAIN store
                                                  THEN Some(store[id]) ELSE None]]
    /\ UNCHANGED <<now, store, issued>>
    /\ StoreThreadsFrame

\* get, lines 29-31 and 34: return None, return entry.data, or go on to del
ThreadGetCheck(p) ==
    /\ calls[p].pc = "check"
    /\ calls' = [calls EXCEPT
                    ![p].pc = IF calls[p].data # None /\ now >= calls[p].data[1].expires_at
                              THEN "del" ELSE "done",
                    ![p].result = IF calls[p].data # None
                                     /\ now < calls[p].data[1].expires_at
                                  THEN Some([data |-> calls[p].data[1].data,
                                             returned_at |-> now])
                                  ELSE None]
    /\ UNCHANGED <<now, store, issued>>
    /\ StoreThreadsFrame

\* get, lines 32-33: del self._store[id] raises KeyError when the key is gone
ThreadGetDel(p) ==
    /\ calls[p].pc = "del"
    /\ IF calls[p].id \in DOMAIN store
       THEN /\ store' = StoreDelete(store, calls[p].id)
            /\ calls' = [calls EXCEPT ![p].pc = "done"]
       ELSE /\ store' = store
            /\ calls' = [calls EXCEPT ![p].pc = "done", ![p].raised = "KeyError"]
    /\ UNCHANGED <<now, issued>>
    /\ StoreThreadsFrame

NextStoreThreads ==
    \/ \E p \in Procs : ThreadSet(p)
    \/ \E p \in Procs : ThreadDelete(p)
    \/ \E p \in Procs : ThreadGetEntry(p)
    \/ \E p \in Procs : ThreadGetCheck(p)
    \/ \E p \in Procs : ThreadGetDel(p)
    \/ TickConc

SpecStoreThreads == StoreThreadsStart /\ [][NextStoreThreads]_vars



(***************************************************************************)
(* From solve_challenge to the guard: an engine with timing analysis and   *)
(* one registered driver issues a token, verify_request with the default   *)
(* min_score decides on it                                                 *)
(***************************************************************************)
\* the engine configurations: timing analysis on, one built-in driver each
SeparationConfigs ==
    { [PlainConfig EXCEPT !.timing = TRUE, !.drivers = << d >>] : d \in AllDrivers }

\* the clock at init_challenge and 500 ms, 10.3 s and 27 s later
SeparationInstants == << 1700, 2200, 12000, 28700 >>

\* the issued answer under its HMAC: without step timings, with constant
\* ones (verdict artificial) and with varied ones (verdict natural)
SeparationInputs(id) ==
    { MakeInput(issued[id].answer,
                hmac_sha256_hex(issued[id].answer, issued[id].result.session_token),
                [NoOptions EXCEPT !.step_timings = st]) :
        st \in { None, Some(<< 100, 100, 100 >>), Some(<< 130, 250, 730 >>) } }

\* the claims of an issued token as the JSON object jwt.encode serialises
WireClaims(payload) ==
    [k \in DOMAIN ClaimKinds |->
        CASE k = "capabilities" ->
                << "caps", << payload.capabilities.reasoning, payload.capabilities.execution,
                              payload.capabilities.autonomy, payload.capabilities.speed,
                              payload.capabilities.consistency >> >>
          [] k = "challenge_ids" -> << "list", payload.challenge_ids >>
          [] k = "iat" -> << "int", payload.iat >>
          [] k = "exp" -> << "int", payload.exp >>
          [] OTHER -> << "str", payload[k] >>]

\* the token string the engine returned, as the guard receives it
WireForm(token, secret) ==
    WireEncode(WireClaims(token.payload),
               IF token.signature = hmac_sha256_hex(SigningInput(token.payload), secret)
               THEN secret ELSE "another-secret")

SeparationStart ==
    /\ now = SeparationInstants[1]
    /\ cfg \in SeparationConfigs
    /\ registry = cfg.drivers
    /\ store = << >>
    /\ issued = << >>
    /\ sessions = << >>
    /\ res = NoResult
    /\ consumed = {}
    /\ wins = << >>
    /\ calls = [p \in Procs |-> IdleCall]
    /\ probe = None

\* guard.verify_request(token, GuardConfig(secret)) on the token of the
\* solve that has just succeeded; min_score is the default 0.7
GuardVerify ==
    /\ res.op = "solve"
    /\ res.out # None
    /\ res.out[1].token # None
    /\ probe' = [in |-> res.out[1],
                 out |-> Some(VerifyRequest(WireForm(res.out[1].token[1], cfg.secret),
                                            [secret |-> cfg.secret, min_score |-> 700],
                                            now))]
    /\ UNCHANGED <<now, cfg, registry, store, issued, sessions, res, consumed, wins, calls>>

SeparationTick ==
    /\ \E i \in 1..(Len(SeparationInstants) - 1) :
          now = SeparationInstants[i] /\ now' = SeparationInstants[i + 1]
    /\ UNCHANGED <<cfg, registry, store, issued, sessions, res, consumed, wins, calls, probe>>

NextSeparation ==
    \/ \E d \in Difficulties :
          InitChallenge([difficulty |-> Some(d), dimensions |-> None], << >>)
    \/ \E id \in DOMAIN issued : \E input \in SeparationInputs(id) :
          SolveChallenge(id, input)
    \/ GuardVerify
    \/ SeparationTick

SpecSeparation == SeparationStart /\ [][NextSeparation]_vars

(***************************************************************************)
(* challenges/code_execution.py: generate, one template and its bugs       *)
(***************************************************************************)
\* CodeTemplate.available_bugs, by BugDef.name
available_bugs(template) ==
    CASE template = "byte_transform" -> << "off_by_one", "wrong_shift" >>
      [] template = "array_processing" -> << "wrong_operator", "wrong_init", "wrong_pad" >>
      [] OTHER -> << "missing_step", "off_by_one" >>

\* DIFFICULTY_CONFIG
CodeDifficultyConfig(difficulty) ==
    [bug_count |-> CASE difficulty \in {"easy", "medium"} -> 1
                     [] difficulty = "hard" -> 2 [] OTHER -> 3,
     template_names |-> IF difficulty = "easy"
                        THEN << "byte_transform", "array_processing" >>
                        ELSE << "byte_transform", "array_processing", "hash_chain" >>,
     edge_case_hint |-> difficulty = "adversarial"]

\* the inputs generate_input can build: two byte strings, and for hash_chain
\* the rounds _random_int(2, 4) draws
TemplateInputs(template) ==
    { [data |-> d, params |-> p] :
        d \in {"b1", "b2"},
        p \in IF template = "hash_chain" THEN { [rounds |-> r] : r \in 2..4 }
              ELSE { << >> } }

HasBug(active_bugs, name) == \E i \in 1..Len(active_bugs) : active_bugs[i] = name

\* buggy_code: the text at each place of the template a bug can change
BuggyCode(template, input, active_bugs) ==
    CASE template = "byte_transform" ->
            [mod |-> IF HasBug(active_bugs, "off_by_one") THEN "255" ELSE "256",
             multiplier |-> IF HasBug(active_bugs, "wrong_shift")
                            THEN "((i + 1) << 7)" ELSE "(i + 1)"]
      [] template = "array_processing" ->
            [operator |-> IF HasBug(active_bugs, "wrong_operator") THEN "+" ELSE "^",
             init_val |-> IF HasBug(active_bugs, "wrong_init") THEN "1" ELSE "0",
             pad_len |-> IF HasBug(active_bugs, "wrong_pad") THEN "1" ELSE "2"]
      [] OTHER ->
            [loop_end |-> IF HasBug(active_bugs, "off_by_one")
                          THEN << input.params.rounds, " - 1" >>
                          ELSE << input.params.rounds, "" >>,
             reverse_comment |-> IF HasBug(active_bugs, "missing_step")
                                 THEN "      // (no reversal step)"
                                 ELSE "      current = current.reverse();"]

\* correct_output: the reference implementation applied to the input
CorrectOutput(template, input) ==
    CASE template = "byte_transform" -> << "sha256_hex(data[i] * (i + 1) % 256)", input.data >>
      [] template = "array_processing" -> << "02x(xor)", input.data >>
      [] OTHER -> << "hex(reversed sha256 rounds)", input.data, input.params.rounds >>

\* list.pop(idx), idx counted from 1
Pop(s, idx) == [i \in 1..(Len(s) - 1) |-> IF i < idx THEN s[i] ELSE s[i + 1]]

\* to_select of _select_bugs
ToSelect(template, count) ==
    IF count < Len(available_bugs(template)) THEN count ELSE Len(available_bugs(template))

\* generate(difficulty) before it has picked its template
InitCodeExecution ==
    ProbeStart({ [difficulty |-> d, pc |-> "pick", template |-> "", input |-> None,
                  available |-> << >>, selected |-> << >>] : d \in Difficulties })

\* template = _pick_random(eligible)
PickTemplate ==
    /\ ProbeReady
    /\ probe.in.pc = "pick"
    /\ \E i \in 1..Len(CodeDifficultyConfig(probe.in.difficulty).template_names) :
          probe' = [probe EXCEPT
                       !.in.template = CodeDifficultyConfig(probe.in.difficulty).template_names[i],
                       !.in.pc = "input"]
    /\ ProbeFrame

\* input_data = template.generate_input(), and the first lines of _select_bugs
GenerateInput ==
    /\ ProbeReady
    /\ probe.in.pc = "input"
    /\ \E input \in TemplateInputs(probe.in.template) :
          probe' = [probe EXCEPT !.in.input = Some(input),
                                 !.in.available = available_bugs(probe.in.template),
                                 !.in.pc = "select"]
    /\ ProbeFrame

\* one turn of the loop of _select_bugs
SelectBug ==
    /\ ProbeReady
    /\ probe.in.pc = "select"
    /\ Len(probe.in.selected)
          < ToSelect(probe.in.template, CodeDifficultyConfig(probe.in.difficulty).bug_count)
    /\ \E idx \in 1..Len(probe.in.available) :
          probe' = [probe EXCEPT !.in.selected = Append(@, probe.in.available[idx]),
                                 !.in.available = Pop(@, idx)]
    /\ ProbeFrame

\* the rest of generate: the buggy code, the correct output and the payload
BuildPayload ==
    /\ ProbeReady
    /\ probe.in.pc = "select"
    /\ Len(probe.in.selected)
          = ToSelect(probe.in.template, CodeDifficultyConfig(probe.in.difficulty).bug_count)
    /\ probe' = [probe EXCEPT !.out =
                    Some([type |-> "code-execution",
                          buggy_code |-> BuggyCode(probe.in.template, probe.in.input[1],
                                                   probe.in.selected),
                          data |-> probe.in.input[1].data,
                          steps |-> Len(probe.in.selected),
                          context |-> [templateName |-> probe.in.template,
                                       bugs |-> probe.in.selected,
                                       correctOutput |-> CorrectOutput(probe.in.template,
                                                                       probe.in.input[1]),
                                       inputParams |-> probe.in.input[1].params]])]
    /\ ProbeFrame

NextCodeExecution == PickTemplate \/ GenerateInput \/ SelectBug \/ BuildPayload

SpecCodeExecution == InitCodeExecution /\ [][NextCodeExecution]_vars

(***************************************************************************)
(* Properties                                                              *)
(***************************************************************************)
\* a step in which an engine call of kind op completed
Completed(op) == res' # res /\ res'.op = op

\* the submission that carries the issued answer under its own HMAC
GoodInput(id) ==
    MakeInput(issued[id].answer,
              hmac_sha256_hex(issued[id].answer, issued[id].result.session_token),
              NoOptions)

FailureReasons == {"expired", "invalid_hmac", "wrong_answer", "too_fast", "timeout"}

\* C1: once a solve has passed the HMAC check for an id, the id is gone from
\* the store, every later solve for it returns `expired`, every later get
\* returns None, and at most one solve per id ever returns success.
C1_SingleUse ==
    [][\A id \in consumed :
          /\ id \notin DOMAIN store
          /\ id \notin DOMAIN store'
          /\ wins'[id] <= 1
          /\ (Completed("solve") /\ res'.id = id)
                => res'.raised = "" /\ res'.out[1].reason = Some("expired")
          /\ (Completed("get") /\ res'.id = id)
                => res'.raised = "" /\ res'.out = None]_vars

\* a solve answered `expired` within the TTL because an earlier one had won
C1_Witness ==
    /\ res.op = "solve"
    /\ res.id \in consumed
    /\ wins[res.id] = 1
    /\ res.out # None
    /\ res.out[1].reason = Some("expired")
    /\ res.input = GoodInput(res.id)
    /\ now < issued[res.id].result.expires_at * 1000

C3_OneWinner ==
    \A p, q \in Procs :
        (p # q /\ calls[p].pc = "done" /\ calls[q].pc = "done"
            /\ calls[p].id = calls[q].id
            /\ calls[p].result # None /\ calls[q].result # None
            /\ calls[p].input[1].answer = issued[calls[p].id].answer
            /\ calls[q].input[1].answer = issued[calls[q].id].answer)
        => /\ ~(calls[p].result[1].success /\ calls[q].result[1].success)
           /\ calls[p].result[1].success
                => calls[q].result[1].reason = Some("expired")

\* C4: at any time at or after the expires_at that init_challenge returned,
\* get_challenge returns None and solve_challenge returns `expired`, even
\* with the right session token, HMAC and answer.
C4_ExpiredFromExpiresAt ==
    [][\A id \in DOMAIN issued :
          now' >= issued[id].result.expires_at * 1000
          => /\ (Completed("get") /\ res'.id = id
                    /\ res'.input.session_token = issued[id].result.session_token)
                    => res'.raised = "" /\ res'.out = None
             /\ (Completed("solve") /\ res'.id = id /\ res'.input = GoodInput(id))
                    => res'.raised = "" /\ res'.out[1].reason = Some("expired")]_vars

\* C5: for a live challenge get_challenge(id, t) returns the view exactly
\* when t is the session token init_challenge returned, and None for every
\* other t and for an unknown or dead id; the view carries neither the
\* payload context nor the session token.
C5_GetChallengeGate ==
    [][Completed("get")
        => LET id == res'.id
               t == res'.input.session_token
               live == StoreGet(store, id, now) # None
           IN  /\ res'.raised = ""
               /\ res'.out # None
                    <=> (live /\ id \in DOMAIN issued
                              /\ t = issued[id].result.session_token)
               /\ res'.out # None
                    => /\ res'.out[1].id = id
                       /\ "context" \notin DOMAIN res'.out[1].payload
                       /\ "session_token" \notin DOMAIN res'.out[1]]_vars

\* C6: with timing analysis on, a live challenge solved with a valid HMAC
\* and the correct answer succeeds, with a token, exactly when its zone is
\* ai_zone, suspicious or human; in zone too_fast or timeout it fails with
\* the zone as reason, carries the timing analysis and has no token.
C6_ZoneGate ==
    [][(Completed("solve") /\ cfg.timing
            /\ HmacCheck(StoreGet(store, res'.id, now), res'.input) = "passed"
            /\ res'.input.answer = issued[res'.id].answer)
        => LET r == res'.out[1]
               zone == r.timing_analysis[1].zone
           IN  /\ res'.raised = ""
               /\ r.timing_analysis # None
               /\ r.success <=> zone \in {"ai_zone", "suspicious", "human"}
               /\ r.success => r.token # None
               /\ zone \in {"too_fast", "timeout"}
                    => ~r.success /\ r.reason = Some(zone) /\ r.token = None]_vars

\* the correct answer arrives after the baseline's timeout and is refused
C6_Witness ==
    /\ res.op = "solve"
    /\ cfg.timing
    /\ res.out # None
    /\ res.out[1].reason = Some("timeout")
    /\ res.out[1].timing_analysis # None
    /\ res.out[1].timing_analysis[1].zone = "timeout"
    /\ res.input.answer = issued[res.id].answer

\* C7: a failed solve has the all-zero score, no token and one of the five
\* reasons expired, invalid_hmac, wrong_answer, too_fast, timeout (never
\* already_used); a successful one has a token and no reason.
C7_ResultShape ==
    (res.op = "solve" /\ res.out # None)
        => LET r == res.out[1]
           IN  /\ r.reason # Some("already_used")
               /\ ~r.success => /\ r.score = zero_score
                                /\ r.token = None
                                /\ r.reason \in {Some(x) : x \in FailureReasons}
               /\ r.success => r.token # None /\ r.reason = None

\* a solve refused for a timing zone: zero score, no token
C7_Witness ==
    /\ res.op = "solve"
    /\ res.out # None
    /\ ~res.out[1].success
    /\ res.out[1].reason = Some("too_fast")
    /\ res.out[1].score = zero_score

\* C8: the token of a successful solve, presented unchanged to verify_token
\* before exp = iat + token_ttl_seconds, is valid and reports the solve's
\* score and model family: the PoMI family if one was identified, else
\* metadata.model, else "unknown".
C8_SignVerifyRoundTrip ==
    [][(Completed("verify_token") /\ res.op = "solve" /\ res.out # None
            /\ res.out[1].success /\ res'.input.token = res.out[1].token[1])
        => LET r == res.out[1]
               claims == res'.input.token.payload
               pomi_family == IF r.model_identity # None
                              THEN r.model_identity[1].family ELSE "unknown"
               metadata == res.input.metadata
               family == IF pomi_family # "unknown" THEN pomi_family
                         ELSE IF metadata # None /\ "model" \in DOMAIN metadata[1]
                         THEN metadata[1]["model"] ELSE "unknown"
           IN  /\ claims.exp = claims.iat + cfg.token_ttl_seconds
               /\ now' < claims.exp * 1000
                    => /\ res'.out.valid
                       /\ res'.out.capabilities = Some(r.score)
                       /\ res'.out.model_family = Some(family)
                       /\ res'.out.expires_at = Some(claims.exp)]_vars

\* a token verified some time after the solve that issued it
C8_Witness ==
    /\ res.op = "verify_token"
    /\ res.input.token = res.input.held
    /\ res.out.valid
    /\ res.out.model_family = Some("unknown")
    /\ now > res.input.token.payload.iat * 1000 + 1000

\* C9: the part of solve_challenge that decides the outcome gives the same
\* success flag, reason and score whatever the metadata and whatever the
\* session-tracker history; anomalies appear only on a result that succeeds
\* without them too.
C9_MetadataNeverGates ==
    (probe # None /\ probe.out # None)
        => LET a == probe.out[1].a
               b == probe.out[1].b
           IN  /\ a.success = b.success
               /\ a.reason = b.reason
               /\ a.score = b.score
               /\ a.session_anomalies # None => a.success /\ b.success
               /\ b.session_anomalies # None => a.success /\ b.success

\* the same correct submission, once with a history that shows anomalies
\* and once with other metadata and no anomaly
C9_Witness ==
    /\ probe # None
    /\ probe.out # None
    /\ probe.in.input.metadata # probe.in.other_metadata
    /\ probe.out[1].a.success
    /\ probe.out[1].a.session_anomalies # None
    /\ probe.out[1].b.session_anomalies = None

\* C10: a solve that has not returned - and so any solve cancelled at
\* store.get, store.delete or driver.verify - has changed nothing but the
\* store, by deleting its challenge: each of its steps leaves the session
\* tracker and the count of signed tokens as they were.
C10_CancelSafe ==
    [][\A p \in Procs :
          (calls'[p] # calls[p]
              /\ calls'[p].pc \in {"get", "delete", "verify", "cancelled"})
          => /\ sessions' = sessions
             /\ wins' = wins
             /\ issued' = issued
             /\ store' = store \/ store' = StoreDelete(store, calls'[p].id)]_vars

\* a correct solve carrying metadata, cancelled after its store.delete
C10_Witness ==
    \E p \in Procs :
        /\ calls[p].pc = "cancelled"
        /\ calls[p].data # None
        /\ calls[p].input[1].metadata # None
        /\ calls[p].id \notin DOMAIN store
        /\ sessions = << >>
        /\ wins[calls[p].id] = 0

\* C11: inject returns a payload with the type, data and steps of its
\* argument and with every context key of the argument kept (canary_ids is
\* the only key added or rewritten), leaves the argument as it was, and the
\* answer hash init_challenge stores is the driver's hash of the payload
\* before injection: with PoMI on and off the same answers are accepted.
C11_InjectionKeepsCriterion ==
    Applied
        => LET p == probe.in.payload
               r == probe.out[1].injection
               ctx_p == IF p.context = None THEN << >> ELSE p.context[1]
               ctx_r == IF r.payload.context = None THEN << >> ELSE r.payload.context[1]
               on == probe.out[1].with_pomi
               off == probe.out[1].without_pomi
           IN  /\ r.payload.type = p.type
               /\ r.payload.data = p.data
               /\ r.payload.steps = p.steps
               /\ DOMAIN ctx_p \subseteq DOMAIN ctx_r
               /\ DOMAIN ctx_r \subseteq DOMAIN ctx_p \cup {"canary_ids"}
               /\ \A k \in DOMAIN ctx_p \ {"canary_ids"} : ctx_r[k] = ctx_p[k]
               /\ r.argument = p
               /\ on.data.answer_hash = DriverComputeAnswerHash(on.original)
               /\ on.data.answer_hash = off.data.answer_hash
               /\ \A x \in {DriverSolve(on.original), DriverSolve(on.data.challenge.payload),
                            "wrong"} :
                     DriverVerify(on.data.answer_hash, x)
                        = DriverVerify(off.data.answer_hash, x)

\* canaries of several methods injected into a payload that has a context
C11_Witness ==
    /\ Applied
    /\ Len(probe.out[1].injection.injected) = 2
    /\ probe.in.payload.context # None
    /\ "ops" \in DOMAIN probe.out[1].injection.payload.context[1]
    /\ probe.out[1].injection.payload.instructions # probe.in.payload.instructions
    /\ probe.out[1].with_pomi.data.challenge.payload
          # probe.out[1].without_pomi.data.challenge.payload

\* C12: TokenVerifier.verify returns the claims or raises an AgentAuthError of
\* status 401 whose error_type is token_expired, invalid_issuer,
\* invalid_signature or invalid_token, and no other exception leaves the
\* call: a token signed with another secret gives invalid_signature, and of
\* the tokens signed with the right secret one whose only defect is an exp
\* in the past gives token_expired, one whose only defect is another issuer
\* gives invalid_issuer, and one with any other single defect (malformed, a
\* missing or ill-typed claim) gives invalid_token.
C12_TypedErrorsOnly ==
    Applied
        => LET v == probe.out[1].verify
               x == probe.in
               sound == x.defect \in {"none", "empty_challenge_ids"}
               signed == x.key = GuardSecret
               fresh == x.exp # 1
               issuer == x.iss = "agentauth"
           IN  /\ v.outcome \in {"claims", "AgentAuthError"}
               /\ v.outcome = "AgentAuthError"
                    => /\ v.status = 401
                       /\ v.error_type \in {"token_expired", "invalid_issuer",
                                            "invalid_signature", "invalid_token"}
               /\ x.defect # "malformed" /\ ~signed => v.error_type = "invalid_signature"
               /\ sound /\ signed /\ ~fresh /\ issuer => v.error_type = "token_expired"
               /\ sound /\ signed /\ fresh /\ ~issuer => v.error_type = "invalid_issuer"
               /\ sound /\ signed /\ fresh /\ issuer
                    => v.outcome = "claims" /\ v.claims = Some(x.token.payload)
               /\ ~sound /\ signed /\ fresh /\ issuer
                    => v.outcome = "AgentAuthError" /\ v.error_type = "invalid_token"

\* C13: verify_request raises a 401 for every token verify rejects; for a
\* token verify accepts it raises 403 insufficient_score iff the mean of the
\* five capabilities is below min_score, and otherwise returns the claims
\* with the seven AgentAuth-* headers.
C13_GuardContract ==
    Applied
        => LET v == probe.out[1].verify
               g == probe.out[1].guard
               min == probe.in.config.min_score
           IN  /\ v.outcome # "claims" => g.outcome = "AgentAuthError" /\ g.status = 401
               /\ v.outcome = "claims"
                    => LET caps == v.claims[1]["capabilities"][2]
                           low == CapabilitySum(caps) < 5 * min
                       IN  /\ low <=> (g.outcome = "AgentAuthError" /\ g.status = 403
                                          /\ g.error_type = "insufficient_score")
                           /\ ~low => /\ g.outcome = "result"
                                      /\ g.claims = v.claims
                                      /\ g.headers["AgentAuth-Status"] = "verified"
                                      /\ DOMAIN g.headers =
                                           {"AgentAuth-Status", "AgentAuth-Score",
                                            "AgentAuth-Model-Family",
                                            "AgentAuth-Capabilities", "AgentAuth-Version",
                                            "AgentAuth-Challenge-Id",
                                            "AgentAuth-Token-Expires"}

\* C14: for each of the four drivers and every payload p it generates,
\* verify(compute_answer_hash(p), x) is True when x is solve(p), False for
\* every other string x, and False for every x that is not a string.
C14_VerifyExactlySolution ==
    Applied
        => LET x == probe.in.answer
               o == probe.out[1]
           IN  /\ x[1] = "str" /\ x[2] = o.solution => o.verified = "True"
               /\ x[1] = "str" /\ x[2] # o.solution => o.verified = "False"
               /\ x[1] # "str" => o.verified = "False"

\* C15: without RTT, on a baseline with too_fast_ms <= ai_upper_ms <=
\* human_ms <= timeout_ms, analyze assigns too_fast iff e < too_fast_ms,
\* ai_zone iff too_fast_ms <= e <= ai_upper_ms, suspicious iff ai_upper_ms <
\* e <= human_ms, human iff human_ms < e <= timeout_ms, timeout iff e >
\* timeout_ms, and reports (to three decimals) the penalty 1.0, 0.0,
\* 0.3 + 0.4 * (e - ai_upper_ms) / (human_ms - ai_upper_ms), 0.9, 1.0, which
\* lies in [0, 1].
C15_ZonesWithoutRtt ==
    Applied /\ Tolerance2(probe.in.rtt_ms) = 0
        => LET b == probe.in.baseline
               e2 == probe.in.e2
               o == probe.out[1]
           IN  /\ o.zone = "too_fast" <=> e2 < 2 * b.too_fast_ms
               /\ o.zone = "ai_zone" <=> 2 * b.too_fast_ms <= e2 /\ e2 <= 2 * b.ai_upper_ms
               /\ o.zone = "suspicious" <=> 2 * b.ai_upper_ms < e2 /\ e2 <= 2 * b.human_ms
               /\ o.zone = "human" <=> 2 * b.human_ms < e2 /\ e2 <= 2 * b.timeout_ms
               /\ o.zone = "timeout" <=> e2 > 2 * b.timeout_ms
               /\ o.zone \in {"too_fast", "timeout"} => o.penalty = 1000
               /\ o.zone = "ai_zone" => o.penalty = 0
               /\ o.zone = "human" => o.penalty = 900
               /\ o.zone = "suspicious"
                    => LET range == 2 * (b.human_ms - b.ai_upper_ms)
                       IN  o.penalty = Round(300 * range + 400 * (e2 - 2 * b.ai_upper_ms), range)
               /\ 0 <= o.penalty /\ o.penalty <= 1000

\* an elapsed time strictly inside the suspicious zone, analysed without RTT
C15_Witness ==
    /\ Applied
    /\ probe.in.rtt_ms = None
    /\ probe.out[1].zone = "suspicious"
    /\ probe.out[1].penalty > 300
    /\ probe.out[1].penalty < 700

\* C16: with a positive RTT analyze enlarges only ai_upper_ms and human_ms, by
\* max(0.5 * rtt, 200), and still returns zone timeout with penalty 1.0
\* whenever e > timeout_ms.
C16_TimeoutStaysWithRtt ==
    Applied /\ Tolerance2(probe.in.rtt_ms) > 0
        => LET b == probe.in.baseline
               e2 == probe.in.e2
               tol2 == Tolerance2(probe.in.rtt_ms)
               o == probe.out[1]
           IN  /\ e2 < 2 * b.too_fast_ms => o.zone = "too_fast"
               /\ 2 * b.too_fast_ms <= e2 /\ e2 <= 2 * b.timeout_ms
                    => /\ o.zone = "ai_zone" <=> e2 <= 2 * b.ai_upper_ms + tol2
                       /\ o.zone = "human" <=> e2 > 2 * b.human_ms + tol2
               /\ e2 > 2 * b.timeout_ms => o.zone = "timeout" /\ o.penalty = 1000

\* C17: reasoning is 0.9 if "reasoning" is among the dimensions else 0.5,
\* execution is 0.95 with the dimensions of crypto-nl, speed is
\* (1 - penalty) * 0.95, autonomy is (1 - penalty) * 0.9 in the human and
\* suspicious zones and 0.9 otherwise, consistency is 0.92 if "memory" is
\* among the dimensions else 0.9; an artificial verdict multiplies autonomy
\* and consistency, and nothing else, by 0.7; every value is the rounding
\* to three decimals of these and lies in [0, 1].
C17_ScoreFormula ==
    Applied
        => LET x == probe.in
               o == probe.out[1]
               penalty == IF x.timing_analysis = None THEN 0 ELSE x.timing_analysis[1].penalty
               slow == x.timing_analysis # None
                          /\ x.timing_analysis[1].zone \in {"human", "suspicious"}
               factor == IF x.pattern_analysis # None
                            /\ x.pattern_analysis[1].verdict = "artificial"
                         THEN 700 ELSE 1000
               \* v (thousandths) is exact (millionths of thousandths) to 3 decimals
               Rounds(v, exact) == 2 * (v * 1000000 - exact) <= 1000000
                                      /\ 2 * (exact - v * 1000000) <= 1000000
           IN  /\ o.reasoning = IF SeqContains(x.dimensions, "reasoning") THEN 900 ELSE 500
               /\ x.dimensions = CryptoNLDriver.dimensions => o.execution = 950
               /\ Rounds(o.speed, (1000 - penalty) * 950 * 1000)
               /\ Rounds(o.autonomy, (IF slow THEN 1000 - penalty ELSE 1000) * 900 * factor)
               /\ Rounds(o.consistency,
                         (IF SeqContains(x.dimensions, "memory") THEN 920 ELSE 900)
                            * 1000 * factor)
               /\ \A k \in DOMAIN o : 0 <= o[k] /\ o[k] <= 1000

\* a suspicious solve of a multi-step challenge with an artificial pattern
C17_Witness ==
    /\ Applied
    /\ probe.in.dimensions = MultiStepDriver.dimensions
    /\ probe.in.timing_analysis = Some([elapsed_ms |-> 0, zone |-> "suspicious", penalty |-> 457])
    /\ probe.in.pattern_analysis = Some([verdict |-> "artificial"])
    /\ probe.out[1].speed = 516
    /\ probe.out[1].autonomy = 342
    /\ probe.out[1].consistency = 644

\* C18: for a base elapsed time b >= 0 and any client_rtt_ms, the RTT
\* subtracted lies in [0, 0.5 * b] and the elapsed time passed to the zone
\* classification lies in [0.5 * b, b].
C18_RttClipped ==
    Applied /\ probe.in.base_elapsed >= 0
        => LET b == probe.in.base_elapsed
               o == probe.out[1]
           IN  /\ 0 <= o.rtt2 /\ o.rtt2 <= b
               /\ b <= o.elapsed2 /\ o.elapsed2 <= 2 * b

\* a client that reports far more than the base time has half of it taken off
C18_Witness ==
    /\ Applied
    /\ probe.in.base_elapsed = 101
    /\ probe.in.client_rtt_ms = Some(1000000)
    /\ probe.out[1].rtt2 = 101
    /\ probe.out[1].elapsed2 = 101

\* C19: analyze returns each anomaly type at most once; zone_inconsistency
\* iff the session has at least 3 entries, one of them ai_zone and one human
\* or suspicious; timing_variance_anomaly iff it has at least 3 entries and
\* the coefficient of variation of elapsed_ms is below 0.05; rapid_succession
\* iff two consecutive entries are less than 5000 ms apart; nothing with
\* fewer than 2 entries or after clear; and only the entries of the session
\* analysed count.
C19_AnomaliesExact ==
    Applied /\ probe.in.op = "analyze"
        => LET session_id == probe.in.session_id
               entries == IF session_id \in DOMAIN sessions THEN sessions[session_id] ELSE << >>
               n == Len(entries)
               out == probe.out[1]
               Has(type) == \E i \in 1..Len(out) : out[i] = type
               timings == [i \in 1..n |-> entries[i].elapsed_ms]
           IN  /\ \A i, j \in 1..Len(out) : out[i] = out[j] => i = j
               /\ \A i \in 1..Len(out) :
                     out[i] \in {"zone_inconsistency", "timing_variance_anomaly",
                                 "rapid_succession"}
               /\ n < 2 => out = << >>
               /\ probe.in.after_clear => out = << >>
               /\ n >= 2 =>
                    /\ Has("zone_inconsistency")
                         <=> /\ n >= 3
                             /\ \E i \in 1..n : entries[i].zone = "ai_zone"
                             /\ \E i \in 1..n : entries[i].zone \in {"human", "suspicious"}
                    /\ Has("timing_variance_anomaly") <=> n >= 3 /\ CvBelow(timings, 1, 20)
                    /\ Has("rapid_succession")
                         <=> \E i \in 1..(n - 1) :
                                entries[i + 1].timestamp - entries[i].timestamp < 5000

\* three entries of s1 in both zones, close together, while s2 has an entry
C19_Witness ==
    /\ Applied
    /\ probe.in.op = "analyze"
    /\ probe.in.session_id = "s1"
    /\ "s2" \in DOMAIN sessions
    /\ probe.out[1] = << "zone_inconsistency", "timing_variance_anomaly", "rapid_succession" >>

\* C20: classify returns family "unknown" with confidence 0 and no evidence
\* when there are no canary responses or none for an injected canary;
\* otherwise the family is the arg-max of the posteriors if that posterior
\* reaches confidence_threshold and "unknown" if not, and then alternatives
\* holds the best guess first and every other family after it in descending
\* confidence.  After the single math-precision probe answered "0.3" over the
\* five default families each matching family is above 1/5, claude-3-class
\* is below, and the result is "unknown" with a matching family on top.
C20_ClassifyContract ==
    Applied
        => LET x == probe.in
               o == probe.out[1]
               n == Len(x.families)
               answered == IF x.canary_responses = None THEN {}
                           ELSE {i \in 1..Len(x.canaries) :
                                    x.canaries[i].id \in DOMAIN x.canary_responses[1]}
               w == o.posteriors
               total == SumSeq(w)
               a == o.alternatives
           IN  /\ answered = {}
                    => o.family = "unknown" /\ o.confidence = 0 /\ o.evidence = << >>
               /\ answered # {}
                    => \E k \in 1..n :
                          /\ \A j \in 1..n : w[j] <= w[k]
                          /\ 1000 * w[k] >= x.confidence_threshold * total
                                => o.family = x.families[k]
                          /\ 1000 * w[k] < x.confidence_threshold * total
                                => /\ o.family = "unknown"
                                   /\ Len(a) = n
                                   /\ a[1].family = x.families[k]
                                   /\ {a[i].family : i \in 2..n}
                                         = {x.families[j] : j \in 1..n} \ {x.families[k]}
                                   /\ \A i \in 1..(n - 1) : a[i].confidence >= a[i + 1].confidence
               /\ (/\ x.families = DefaultFamilies
                   /\ x.canaries = << MathPrecision >>
                   /\ x.canary_responses = Some(("math-precision" :> "0.3"))
                   /\ x.confidence_threshold = 500)
                    => /\ \A k \in 1..n :
                             IF x.families[k] = "claude-3-class" THEN 5 * w[k] < total
                             ELSE 5 * w[k] > total
                       /\ o.family = "unknown"
                       /\ a[1].family # "claude-3-class"

\* the math-precision probe answered "0.3" over the five default families
C20_Witness ==
    /\ Applied
    /\ probe.in.families = DefaultFamilies
    /\ probe.in.canaries = << MathPrecision >>
    /\ probe.in.canary_responses = Some(("math-precision" :> "0.3"))
    /\ probe.in.confidence_threshold = 500
    /\ probe.out[1].family = "unknown"
    /\ probe.out[1].confidence = 213
    /\ probe.out[1].alternatives[1].family = "gpt-4-class"
    /\ probe.out[1].alternatives[5] = [family |-> "claude-3-class", confidence |-> 149]

\* the registry index of the driver that select must put at position k: the
\* drivers ordered by coverage, highest first, and by registration among equals
CoverageIndex(dims, k) ==
    CHOOSE i \in 1..Len(registry) :
        Cardinality({j \in 1..Len(registry) :
            \/ Coverage(registry[j], dims) > Coverage(registry[i], dims)
            \/ Coverage(registry[j], dims) = Coverage(registry[i], dims) /\ j < i}) = k - 1

\* C21: select raises when no driver is registered; without dimensions it
\* returns the first count drivers in registration order; with dimensions it
\* returns the first count drivers by descending coverage, equal coverage in
\* registration order; init_challenge generates with the earliest-registered
\* driver of maximal coverage.
C21_SelectByCoverage ==
    /\ (res.op = "select" /\ Len(registry) = 0) => res.raised = "ValueError"
    /\ (res.op = "select" /\ Len(registry) > 0 /\ res.input[1].count >= 0) =>
          LET dimensions == res.input[1].dimensions
              count == res.input[1].count
              dims == IF dimensions = None THEN << >> ELSE dimensions[1]
              m == IF count < Len(registry) THEN count ELSE Len(registry)
          IN  /\ res.raised = ""
              /\ Len(res.out[1]) = m
              /\ \A k \in 1..m :
                    res.out[1][k] = IF Len(dims) = 0 THEN registry[k]
                                    ELSE registry[CoverageIndex(dims, k)]
    /\ (res.op = "init" /\ Len(registry) = 0) => res.raised = "ValueError"
    /\ (res.op = "init" /\ Len(registry) > 0) =>
          LET dimensions == res.input.dimensions
              dims == IF dimensions = None THEN << >> ELSE dimensions[1]
              best == CHOOSE i \in 1..Len(registry) :
                        /\ \A j \in 1..Len(registry) :
                              Coverage(registry[j], dims) <= Coverage(registry[i], dims)
                        /\ \A j \in 1..(i - 1) :
                              Coverage(registry[j], dims) < Coverage(registry[i], dims)
              data == store[res.out.id].data
          IN  /\ res.raised = ""
              /\ data.challenge.payload.type = registry[best].name
              /\ data.challenge.dimensions = registry[best].dimensions

\* two drivers of equal coverage are registered after one of lower coverage,
\* both are returned in registration order ahead of it
C21_Witness ==
    /\ res.op = "select"
    /\ res.raised = ""
    /\ res.input[1] = [dimensions |-> Some(<< "execution" >>), count |-> 2]
    /\ Len(registry) = 3
    /\ registry[1] = AmbiguousLogicDriver
    /\ res.out[1] = << MultiStepDriver, CryptoNLDriver >>

\* C22: register raises an error for a name that is already registered and
\* leaves the registry as it was (the first driver keeps the name, order and
\* length unchanged); otherwise it appends the driver; names in the registry
\* are always unique.
C22_RegisterKeepsFirst ==
    /\ [](\A i, j \in 1..Len(registry) : registry[i].name = registry[j].name => i = j)
    /\ [][res'.op = "register" =>
            IF \E i \in 1..Len(registry) : registry[i].name = res'.id
            THEN res'.raised = "ValueError" /\ registry' = registry
            ELSE res'.raised = "" /\ registry' = Append(registry, res'.input[1])]_vars

\* the fake driver was refused: the built-in crypto-nl driver keeps its name
C22_Witness ==
    /\ res.op = "register"
    /\ res.raised = "ValueError"
    /\ res.input[1] = FakeDriver
    /\ Len(registry) = 2
    /\ registry[2] = CryptoNLDriver

C24_PipelineNeverRaises ==
    Applied => probe.out[1].raised = ""

\* C25: MultiStep generation completes without error for every difficulty
\* and every random outcome, and every generated memory_recall step names an
\* earlier step and a byte index below the byte length of that step's result.
C25_RecallWithinResult ==
    (probe # None) =>
        /\ probe.out # None => probe.out[1].raised = ""
        /\ \A k \in 1..Len(probe.in.steps) :
              probe.in.steps[k].type = "memory_recall" =>
                 /\ probe.in.steps[k].step >= 0
                 /\ probe.in.steps[k].step < k - 1
                 /\ probe.in.steps[k].byteIndex
                        < probe.in.results[probe.in.steps[k].step + 1]

\* C26: for any interleaving of concurrent record calls on the same session
\* id, first calls for a new id included, no entry is lost: once the calls
\* have returned, a session holds as many entries as record calls completed
\* for it.
C26_NoLostEntry ==
    (\A p \in Procs : calls[p].pc = "idle") =>
        \A s \in TrackedSessions :
            probe.completed[s] = IF s \in DOMAIN sessions THEN Len(sessions[s]) ELSE 0

\* C27: for any interleaving of concurrent get / set / delete on the same
\* id, every operation completes without raising, and a get that returns
\* data returns data that was set for that id and had not expired.
C27_StoreThreadSafe ==
    \A p \in Procs :
        /\ calls[p].raised = ""
        /\ (calls[p].pc = "done" /\ calls[p].input = Some("get") /\ calls[p].result # None) =>
              /\ calls[p].id \in DOMAIN issued
              /\ calls[p].result[1].data \in issued[calls[p].id]
              /\ calls[p].result[1].returned_at < calls[p].data[1].expires_at

\* C28: between init_challenge and its removal the stored ChallengeData is
\* never modified: attempts is 0 and max_attempts 3 in every state, no call
\* changes an entry that stays in the store, get_challenge and an
\* invalid-HMAC solve on a live challenge leave the store as it was, and a
\* solve with a valid HMAC and the correct answer on a live challenge
\* succeeds however many invalid-HMAC attempts came before (with timing
\* analysis on: unless its zone is too_fast or timeout).
C28_StoredDataImmutable ==
    /\ [](\A id \in DOMAIN store :
            store[id].data.attempts = 0 /\ store[id].data.max_attempts = 3)
    /\ [][\A id \in DOMAIN store \cap DOMAIN store' : store'[id] = store[id]]_vars
    /\ [][(/\ Completed("get") \/ Completed("solve")
           /\ StoreGet(store, res'.id, now) # None
           /\ \/ res'.op = "get"
              \/ res'.raised # ""
              \/ res'.out[1].reason = Some("invalid_hmac"))
          => store' = store]_vars
    /\ [][(/\ Completed("solve")
           /\ StoreGet(store, res'.id, now) # None
           /\ res'.input = GoodInput(res'.id))
          => /\ res'.raised = ""
             /\ res'.out[1].success
                   <=> (cfg.timing =>
                          ~TimingRejects(SolveTiming(store[res'.id].data, res'.input,
                                                     now).zone))]_vars

\* an invalid-HMAC attempt has just been refused and the challenge is stored
\* as init_challenge stored it, with no attempt counted
C28_Witness ==
    /\ res.op = "solve"
    /\ res.out # None
    /\ res.out[1].reason = Some("invalid_hmac")
    /\ res.id \in DOMAIN store
    /\ store[res.id].data.attempts = 0
    /\ store[res.id].data.max_attempts = 3
    /\ HmacCheck(StoreGet(store, res.id, now), GoodInput(res.id)) = "passed"

\* the sum of the five capabilities of a score record, in thousandths
ScoreSum(score) ==
    score.reasoning + score.execution + score.autonomy + score.speed + score.consistency

\* C29: the engine issues a token for every correct solve whose zone is
\* ai_zone, suspicious or human, whatever the score; for each built-in
\* driver the token of an ai_zone solve, with or without an artificial
\* pattern verdict, has a capability mean of at least 0.7 and verify_request
\* with the default min_score accepts it, and the token of a human-zone solve
\* has a mean below 0.7 and is rejected with insufficient_score (403).
C29_GuardSeparates ==
    /\ (res.op = "solve" /\ res.out # None /\ res.out[1].timing_analysis # None) =>
          (res.out[1].timing_analysis[1].zone \in {"ai_zone", "suspicious", "human"}
              => res.out[1].success /\ res.out[1].token # None)
    /\ (probe # None /\ probe.out # None) =>
          LET zone == probe.in.timing_analysis[1].zone
              guard == probe.out[1]
          IN  /\ zone = "ai_zone" =>
                    /\ ScoreSum(probe.in.score) >= 5 * 700
                    /\ guard.outcome = "result"
              /\ zone = "human" =>
                    /\ ScoreSum(probe.in.score) < 5 * 700
                    /\ guard.outcome = "AgentAuthError"
                    /\ guard.status = 403
                    /\ guard.error_type = "insufficient_score"

\* the lowest mean of an accepted ai_zone token: ambiguous-logic with an
\* artificial pattern verdict, 0.722
C29_Witness ==
    /\ probe # None
    /\ probe.out # None
    /\ registry = << AmbiguousLogicDriver >>
    /\ probe.in.timing_analysis[1].zone = "ai_zone"
    /\ probe.in.pattern_analysis # None
    /\ probe.in.pattern_analysis[1].verdict = "artificial"
    /\ ScoreSum(probe.in.score) = 3610
    /\ probe.out[1].outcome = "result"

\* the places of the generated code that differ from the correct code
InjectedPlaces(payload, input) ==
    { k \in DOMAIN payload.buggy_code :
        payload.buggy_code[k] # BuggyCode(payload.context.templateName, input, << >>)[k] }

\* C30: every CodeExecution payload has as many injected bugs, and as many
\* steps, as the bug count of its difficulty (1, 1, 2, 3), whichever template
\* was picked; the bugs are pairwise distinct members of the template's
\* catalog, and the canonical answer is the output of the reference
\* implementation on the input, whatever bugs were chosen.
C30_BugCountByDifficulty ==
    Applied =>
        LET payload == probe.out[1]
            bugs == payload.context.bugs
            B == CodeDifficultyConfig(probe.in.difficulty).bug_count
        IN  /\ payload.steps = B
            /\ Len(bugs) = B
            /\ Cardinality(InjectedPlaces(payload, probe.in.input[1])) = B
            /\ \A i, j \in 1..Len(bugs) : i # j => bugs[i] # bugs[j]
            /\ \A i \in 1..Len(bugs) : HasBug(available_bugs(payload.context.templateName), bugs[i])
            /\ payload.context.correctOutput
                  = CorrectOutput(payload.context.templateName, probe.in.input[1])

====
